---- MODULE Spec2Model ----
(***************************************************************************)
(* Model of the nghttpx Ingress controller (pkg/controller/controller.go). *)
(*                                                                         *)
(* The specifications of this module:                                      *)
(*   Spec          the controller's lifecycle: notification handlers, the  *)
(*                 coalescing work queue, the queue worker and sync, the   *)
(*                 reload rate limiter, Run/Stop and the status loop;      *)
(*   SpecResolver  getUpstreamServers as a function of the mirror          *)
(*                 contents, applied to bounded mirror snapshots;          *)
(*   SpecScenario  the same on mirrors that hold one rule with two paths;  *)
(*   SpecStatus    the status loops of three replicas on one rule;         *)
(*   SpecTick      one replica's status ticks over several rules and its   *)
(*                 de-registration pass;                                   *)
(*   SpecTickLive  SpecTick with every API call of the pass returning;     *)
(*   SpecPatch     resolver passes between which a rule's status changes;  *)
(*   SpecAddress   getPodAddress and getLoadBalancerIngress on Nodes;      *)
(*   SpecNotify    the notification handlers and their relevance tests;    *)
(*   SpecLive      Spec with the fairness of the worker goroutine and of   *)
(*                 the rate limiter's refill;                              *)
(*   SpecMapper    the configuration mappers of a rule's annotations.      *)
(*                                                                         *)
(* Strings whose order matters (Upstream names, addresses, ports, TLS key  *)
(* paths) are sequences of character codes compared as Go compares         *)
(* strings.                                                                *)
(***************************************************************************)
EXTENDS Integers, Sequences, FiniteSets, TLC

VARIABLES
  \* ---- controller lifecycle (Spec) ----
  syncQueue,      \* lbc.syncQueue: workqueue state [queue, dirty, processing, shuttingDown]
  tokens,         \* lbc.reloadRateLimiter: tokens in the bucket
  shutdown,       \* lbc.shutdown
  stopCh,         \* lbc.stopCh: "open" | "closed"
  synced,         \* controllersInSync(): every informer HasSynced
  ready,          \* Run's ready channel: "open" | "closed"
  rpc,            \* position of Run
  wpc,            \* position of the queue worker goroutine
  wkey,           \* key held by the worker between Get and Done
  retry,          \* sync's local variable retry
  syncResult,     \* outcome of the sync in flight / last finished
  spc,            \* position of the status loop (syncIngress)
  \* ---- observation of the lifecycle (history) ----
  syncRunning,    \* executions of sync in progress
  enqSinceGet,    \* accepted enqueue calls since the last dequeue
  batch,          \* accepted enqueue calls that preceded the pass in flight
  passes,         \* items handed out by Get
  tokensGranted,  \* Accept calls that returned
  listCalls,      \* ingLister.List calls made by sync
  reloadCalls,    \* nghttpx.CheckAndReload calls
  quitGets,       \* Get calls that reported shutdown
  \* ---- callers of Stop ----
  stopLock,       \* lbc.stopLock: "free" or the caller that holds it
  stopPos,        \* position of each caller of Stop
  stopCalls,      \* calls of Stop that got the lock (history)
  closes,         \* executions of close(lbc.stopCh) (history)
  stopAt,         \* position of Run when the stop channel was closed (history)
  \* ---- resolver (SpecResolver) ----
  config,         \* Config given to NewLoadBalancerController
  mirror,         \* contents of the listers' stores
  listed,         \* the Ingresses and Pods as List returned them to the last run
  ingConfig,      \* result of the last getUpstreamServers run
  prevConfig,     \* result of the run before it
  runs,           \* number of runs made on this mirror
  sinkConfig,     \* the model last given to nghttpx.CheckAndReload
  \* ---- status of a rule and the replicas' status loops (SpecStatus) ----
  apiIng,         \* the rule on the API server: [status, version]
  ingCache,       \* the rule in each replica's Ingress lister
  podCache,       \* the replicas' Pods in each replica's Pod lister
  stPos,          \* position of each replica's syncIngress
  ticks,          \* timer cases taken by each replica's syncIngress
  got,            \* the rule as the de-registration pass fetched it
  polls,          \* attempts made by the wait.Poll of the de-registration pass
  \* ---- one status tick over several rules (SpecTick) ----
  tickIngs,       \* the rules: [Class, status in the lister, status on the API server]
  tickPos,        \* position of syncIngress
  tickIdx,        \* index of updateIngressStatus's loop over the listed rules
  tickCur,        \* what the tick in progress has done so far (history)
  tickLog,        \* what the finished ticks did (history)
  rmPass,         \* what the de-registration pass has done so far (history)
  \* ---- node addresses (SpecAddress) ----
  nodeStore,      \* lbc.nodeLister: the Node of each controller Pod, when it exists
  allowInternalIP,\* lbc.allowInternalIP
  lbResult,       \* result of the last getLoadBalancerIngress
  \* ---- notification handlers and their relevance tests (SpecNotify) ----
  event,          \* the notification handled last and what its handler did (history)
  \* ---- configuration mappers of a rule's annotations (SpecMapper) ----
  annotations,    \* the four configuration annotations of the rule
  bcm,            \* result of NewBackendConfigMapper
  pcm             \* result of NewPathConfigMapper

ctlVars == <<syncQueue, tokens, shutdown, stopCh, synced, ready, rpc, wpc, wkey, retry,
             syncResult, spc, syncRunning, enqSinceGet, batch, passes, tokensGranted,
             listCalls, reloadCalls, quitGets, stopLock, stopPos, stopCalls, closes, stopAt>>

stopVars == <<stopLock, stopPos, stopCalls, closes, stopAt>>

resVars == <<config, mirror, listed, ingConfig, prevConfig, runs, sinkConfig>>

\* the status loops of the replicas (SpecStatus)
statVars == <<apiIng, ingCache, podCache, stPos, ticks, got, polls>>

\* one status tick over several rules (SpecTick)
tickVars == <<tickIngs, tickPos, tickIdx, tickCur, tickLog, rmPass>>

\* the node addresses behind the controller Pods (SpecAddress)
addrVars == <<nodeStore, allowInternalIP, lbResult>>

\* state used by the specifications of single functions and handlers
\* the configuration annotations of a rule and the mappers built from them (SpecMapper)
mapVars == <<annotations, bcm, pcm>>

auxVars == <<tickVars, addrVars, event, mapVars>>

vars == <<ctlVars, resVars, statVars, auxVars>>

-----------------------------------------------------------------------------
(* Bounds of the model *)

MaxPasses == 3
MaxEnq == 3
MaxQuitGets == 2
MaxIngs == 2
MaxRuns == 2
MaxStops == 3

-----------------------------------------------------------------------------
(* Program constants *)

syncKey == "ingress"

\* flowcontrol.NewTokenBucketRateLimiter(1.0, 1): burst of one token
Burst == 1

-----------------------------------------------------------------------------
(* The work queue (workqueue.New()), as used through lbc.syncQueue.         *)

NewQueue == [queue |-> <<>>, dirty |-> {}, processing |-> {}, shuttingDown |-> FALSE]

\* syncQueue.Add(key): dropped when shutting down or already dirty; an item
\* being processed is only marked dirty.
Add(q, key) ==
  IF q.shuttingDown \/ key \in q.dirty THEN q
  ELSE IF key \in q.processing THEN [q EXCEPT !.dirty = @ \cup {key}]
  ELSE [q EXCEPT !.dirty = @ \cup {key}, !.queue = Append(@, key)]

\* syncQueue.Get() when it returns an item.
GetItem(q) ==
  [q EXCEPT !.queue = Tail(@),
            !.processing = @ \cup {Head(q.queue)},
            !.dirty = @ \ {Head(q.queue)}]

\* a Done that forgets the key marked dirty meanwhile
DoneForgets(q, key) == [q EXCEPT !.processing = @ \ {key}, !.dirty = @ \ {key}]

\* syncQueue.Done(key): a key marked dirty meanwhile goes back to the queue.
Done(q, key) ==
  IF key \in q.dirty
  THEN [q EXCEPT !.processing = @ \ {key}, !.queue = Append(@, key)]
  ELSE [q EXCEPT !.processing = @ \ {key}]

\* syncQueue.ShutDown()
ShutDown(q) == [q EXCEPT !.shuttingDown = TRUE]

-----------------------------------------------------------------------------
(* Outcomes of the calls sync makes *)

SyncErrors == {"listErr", "resolveErr", "cmErr", "reloadErr"}

InSync == {"accept", "list", "resolve", "getcm", "reload", "return"}

\* The goroutines that call Stop: the handler of the /stop endpoint and
\* handleSigterm, both started by main before Run
Callers == {"http", "sigterm"}

-----------------------------------------------------------------------------
(* Initial state of the controller: after NewLoadBalancerController *)

InitController ==
  /\ syncQueue = NewQueue
  /\ tokens = Burst
  /\ shutdown = FALSE
  /\ stopCh = "open"
  /\ synced = FALSE
  /\ ready = "open"
  /\ rpc = "start"
  /\ wpc = "none"
  /\ wkey = "none"
  /\ retry = FALSE
  /\ syncResult = "none"
  /\ spc = "none"
  /\ syncRunning = 0
  /\ enqSinceGet = 0
  /\ batch = 0
  /\ passes = 0
  /\ tokensGranted = 0
  /\ listCalls = 0
  /\ reloadCalls = 0
  /\ quitGets = 0
  /\ stopLock = "free"
  /\ stopPos = [c \in Callers |-> "idle"]
  /\ stopCalls = 0
  /\ closes = 0
  /\ stopAt = "none"

-----------------------------------------------------------------------------
(* Notification handlers *)

\* lbc.enqueue(key)
enqueueNoDedup(key) ==
  /\ syncQueue' = [syncQueue EXCEPT !.queue = Append(@, key), !.dirty = @ \cup {key}]
  /\ enqSinceGet' = IF syncQueue.shuttingDown THEN enqSinceGet ELSE enqSinceGet + 1

enqueue(key) ==
  /\ syncQueue' = Add(syncQueue, key)
  /\ enqSinceGet' = IF syncQueue.shuttingDown THEN enqSinceGet ELSE enqSinceGet + 1

\* A handler that would run sync itself instead of enqueueing.
NotificationRunsSync(relevant) ==
  /\ rpc \notin {"start", "exited"}
  /\ syncRunning < 2
  /\ syncRunning' = syncRunning + 1
  /\ UNCHANGED <<syncQueue, enqSinceGet, tokens, shutdown, stopCh, synced, ready, rpc, wpc,
                 wkey, retry, syncResult, spc, passes, tokensGranted, listCalls,
                 reloadCalls, quitGets, batch, resVars, stopVars, statVars, auxVars>>

\* add/update/delete notification of any watched kind: the handler evaluates
\* its relevance test (class filter, Reference Index) and enqueues syncKey.
\* Handlers run on the informers' goroutines, started by Run.
Notification(relevant) ==
  /\ rpc \notin {"start", "exited"}
  /\ enqSinceGet < MaxEnq
  /\ IF relevant THEN enqueue(syncKey) ELSE UNCHANGED <<syncQueue, enqSinceGet>>
  /\ UNCHANGED <<tokens, shutdown, stopCh, synced, ready, rpc, wpc, wkey, retry, syncResult,
                 spc, syncRunning, passes, tokensGranted, listCalls, reloadCalls, quitGets, batch, resVars, stopVars, statVars, auxVars>>

Notify == \E relevant \in BOOLEAN : Notification(relevant)

-----------------------------------------------------------------------------
(* The queue worker: worker() run by wait.Until, and sync *)

\* wait.Until(lbc.worker, time.Second, lbc.stopCh): the stop channel is
\* looked at before worker is called; worker itself never returns.
WorkerStart ==
  /\ rpc # "exited"
  /\ wpc = "spawned"
  /\ wpc' = IF stopCh = "closed" THEN "exited" ELSE "get"
  /\ UNCHANGED <<syncQueue, tokens, shutdown, stopCh, synced, ready, rpc, wkey, retry,
                 syncResult, spc, syncRunning, enqSinceGet, passes, tokensGranted,
                 listCalls, reloadCalls, quitGets, batch, resVars, stopVars, statVars, auxVars>>

\* worker: Get returned an item; sync(key) is called with Done deferred.
WorkerGetItem ==
  /\ rpc # "exited"
  /\ wpc = "get"
  /\ syncQueue.queue # <<>>
  /\ passes < MaxPasses
  /\ wkey' = Head(syncQueue.queue)
  /\ syncQueue' = GetItem(syncQueue)
  /\ wpc' = "accept"
  /\ syncResult' = "none"
  /\ syncRunning' = syncRunning + 1
  /\ passes' = passes + 1
  /\ batch' = enqSinceGet
  /\ enqSinceGet' = 0
  /\ UNCHANGED <<tokens, shutdown, stopCh, synced, ready, rpc, retry, spc, tokensGranted,
                 listCalls, reloadCalls, quitGets, resVars, stopVars, statVars, auxVars>>

\* worker: Get reported quit (queue empty and shut down).  The return leaves
\* the function literal only; the enclosing for loop calls Get again.
WorkerGetQuit ==
  /\ rpc # "exited"
  /\ wpc = "get"
  /\ syncQueue.queue = <<>>
  /\ syncQueue.shuttingDown
  /\ quitGets < MaxQuitGets
  /\ quitGets' = quitGets + 1
  /\ wpc' = "get"
  /\ UNCHANGED <<syncQueue, tokens, shutdown, stopCh, synced, ready, rpc, wkey, retry,
                 syncResult, spc, syncRunning, enqSinceGet, passes, tokensGranted,
                 listCalls, reloadCalls, batch, resVars, stopVars, statVars, auxVars>>

\* The token bucket refills with time, up to its burst.
LimiterRefill ==
  /\ rpc # "exited"
  /\ tokens < Burst
  /\ tokens' = tokens + 1
  /\ UNCHANGED <<syncQueue, shutdown, stopCh, synced, ready, rpc, wpc, wkey, retry,
                 syncResult, spc, syncRunning, enqSinceGet, passes, tokensGranted,
                 listCalls, reloadCalls, quitGets, batch, resVars, stopVars, statVars, auxVars>>

\* sync without the limiter: goes on to list the rules at once.
SyncAcceptSkipped ==
  /\ rpc # "exited"
  /\ wpc = "accept"
  /\ retry' = FALSE
  /\ wpc' = "list"
  /\ UNCHANGED <<syncQueue, tokens, shutdown, stopCh, synced, ready, rpc, wkey, syncResult,
                 spc, syncRunning, enqSinceGet, passes, tokensGranted, listCalls,
                 reloadCalls, quitGets, batch, resVars, stopVars, statVars, auxVars>>

\* sync: lbc.reloadRateLimiter.Accept() blocks until a token is there and
\* takes it; then retry := false and retryOrForget is deferred.
SyncAccept ==
  /\ rpc # "exited"
  /\ wpc = "accept"
  /\ tokens > 0
  /\ tokens' = tokens - 1
  /\ tokensGranted' = tokensGranted + 1
  /\ retry' = FALSE
  /\ wpc' = "list"
  /\ UNCHANGED <<syncQueue, shutdown, stopCh, synced, ready, rpc, wkey, syncResult, spc,
                 syncRunning, enqSinceGet, passes, listCalls, reloadCalls, quitGets, batch, resVars, stopVars, statVars, auxVars>>

\* sync: ings, err := lbc.ingLister.List(...); an error returns.
SyncList ==
  /\ rpc # "exited"
  /\ wpc = "list"
  /\ listCalls' = listCalls + 1
  /\ \E ok \in BOOLEAN :
       IF ok THEN wpc' = "resolve" /\ UNCHANGED syncResult
             ELSE wpc' = "return" /\ syncResult' = "listErr"
  /\ UNCHANGED <<syncQueue, tokens, shutdown, stopCh, synced, ready, rpc, wkey, retry, spc,
                 syncRunning, enqSinceGet, passes, tokensGranted, reloadCalls, quitGets, batch, resVars, stopVars, statVars, auxVars>>

\* sync: ingConfig, err := lbc.getUpstreamServers(ings); an error returns.
SyncResolve ==
  /\ rpc # "exited"
  /\ wpc = "resolve"
  /\ \E ok \in BOOLEAN :
       IF ok THEN wpc' = "getcm" /\ UNCHANGED syncResult
             ELSE wpc' = "return" /\ syncResult' = "resolveErr"
  /\ UNCHANGED <<syncQueue, tokens, shutdown, stopCh, synced, ready, rpc, wkey, retry, spc,
                 syncRunning, enqSinceGet, passes, tokensGranted, listCalls, reloadCalls,
                 quitGets, batch, resVars, stopVars, statVars, auxVars>>

\* sync: cm, err := lbc.getConfigMap(lbc.ngxConfigMap); an error returns.
SyncGetConfigMap ==
  /\ rpc # "exited"
  /\ wpc = "getcm"
  /\ \E ok \in BOOLEAN :
       IF ok THEN wpc' = "reload" /\ UNCHANGED syncResult
             ELSE wpc' = "return" /\ syncResult' = "cmErr"
  /\ UNCHANGED <<syncQueue, tokens, shutdown, stopCh, synced, ready, rpc, wkey, retry, spc,
                 syncRunning, enqSinceGet, passes, tokensGranted, listCalls, reloadCalls,
                 quitGets, batch, resVars, stopVars, statVars, auxVars>>

\* a sync that hands its model to the sink although an earlier call failed
SyncReloadAfterError ==
  /\ rpc # "exited"
  /\ wpc = "reload" \/ (wpc = "return" /\ syncResult \in {"listErr", "resolveErr", "cmErr"})
  /\ reloadCalls' = reloadCalls + 1
  /\ \E ok \in BOOLEAN : syncResult' = IF ok THEN "ok" ELSE "reloadErr"
  /\ wpc' = "return"
  /\ UNCHANGED <<syncQueue, tokens, shutdown, stopCh, synced, ready, rpc, wkey, retry, spc,
                 syncRunning, enqSinceGet, passes, tokensGranted, listCalls, quitGets, batch, resVars, stopVars, statVars, auxVars>>

\* sync: nghttpx.ReadConfig(ingConfig, cm); lbc.nghttpx.CheckAndReload(ingConfig)
SyncReload ==
  /\ rpc # "exited"
  /\ wpc = "reload"
  /\ reloadCalls' = reloadCalls + 1
  /\ \E ok \in BOOLEAN : syncResult' = IF ok THEN "ok" ELSE "reloadErr"
  /\ wpc' = "return"
  /\ UNCHANGED <<syncQueue, tokens, shutdown, stopCh, synced, ready, rpc, wkey, retry, spc,
                 syncRunning, enqSinceGet, passes, tokensGranted, listCalls, quitGets, batch, resVars, stopVars, statVars, auxVars>>

\* retryOrForget(key, requeue)
retryOrForget(key, requeue) == IF requeue THEN Add(syncQueue, key) ELSE syncQueue

\* sync returns: the deferred retryOrForget(key, retry) runs.
SyncReturn ==
  /\ rpc # "exited"
  /\ wpc = "return"
  /\ syncQueue' = retryOrForget(wkey, retry)
  /\ syncRunning' = syncRunning - 1
  /\ wpc' = "done"
  /\ UNCHANGED <<tokens, shutdown, stopCh, synced, ready, rpc, wkey, retry, syncResult, spc,
                 enqSinceGet, passes, tokensGranted, listCalls, reloadCalls, quitGets, batch, resVars, stopVars, statVars, auxVars>>

\* worker: the deferred lbc.syncQueue.Done(key) runs and the loop goes round.
WorkerDone ==
  /\ rpc # "exited"
  /\ wpc = "done"
  /\ syncQueue' = Done(syncQueue, wkey)
  /\ wkey' = "none"
  /\ wpc' = "get"
  /\ UNCHANGED <<tokens, shutdown, stopCh, synced, ready, rpc, retry, syncResult, spc,
                 syncRunning, enqSinceGet, passes, tokensGranted, listCalls, reloadCalls,
                 quitGets, batch, resVars, stopVars, statVars, auxVars>>

-----------------------------------------------------------------------------
(* Run, Stop and the status loop *)

\* Run: the sink and the informers are started (handlers may fire from now
\* on) and waitForControllerToSync is started.
RunStart ==
  /\ rpc = "start"
  /\ rpc' = "waitReady"
  /\ UNCHANGED <<syncQueue, tokens, shutdown, stopCh, synced, ready, wpc, wkey, retry,
                 syncResult, spc, syncRunning, enqSinceGet, passes, tokensGranted,
                 listCalls, reloadCalls, quitGets, batch, resVars, stopVars, statVars, auxVars>>

\* Every informer has completed its initial list.
controllersInSync == synced

MirrorSynced ==
  /\ rpc \notin {"start", "exited"}
  /\ ~synced
  /\ synced' = TRUE
  /\ UNCHANGED <<syncQueue, tokens, shutdown, stopCh, ready, rpc, wpc, wkey, retry,
                 syncResult, spc, syncRunning, enqSinceGet, passes, tokensGranted,
                 listCalls, reloadCalls, quitGets, batch, resVars, stopVars, statVars, auxVars>>

\* a wait that closes ready without looking at the controllers
waitForControllerToSyncNoWait ==
  /\ rpc = "waitReady"
  /\ ready = "open"
  /\ ready' = "closed"
  /\ UNCHANGED <<syncQueue, tokens, shutdown, stopCh, synced, rpc, wpc, wkey, retry,
                 syncResult, spc, syncRunning, enqSinceGet, passes, tokensGranted,
                 listCalls, reloadCalls, quitGets, batch, resVars, stopVars, statVars, auxVars>>

\* waitForControllerToSync: leaves its loop when the controllers are in sync
\* or the stop channel is closed, and closes ready.
waitForControllerToSync ==
  /\ rpc = "waitReady"
  /\ ready = "open"
  /\ controllersInSync \/ stopCh = "closed"
  /\ ready' = "closed"
  /\ UNCHANGED <<syncQueue, tokens, shutdown, stopCh, synced, rpc, wpc, wkey, retry,
                 syncResult, spc, syncRunning, enqSinceGet, passes, tokensGranted,
                 listCalls, reloadCalls, quitGets, batch, resVars, stopVars, statVars, auxVars>>

\* Run: <-ready; go wait.Until(lbc.worker, ...); go lbc.syncIngress(lbc.stopCh)
RunSpawn ==
  /\ rpc = "waitReady"
  /\ ready = "closed"
  /\ wpc' = "spawned"
  /\ spc' = "tick"
  /\ rpc' = "waitStop"
  /\ UNCHANGED <<syncQueue, tokens, shutdown, stopCh, synced, ready, wkey, retry,
                 syncResult, syncRunning, enqSinceGet, passes, tokensGranted, listCalls,
                 reloadCalls, quitGets, batch, resVars, stopVars, statVars, auxVars>>

\* Run: <-lbc.stopCh; lbc.syncQueue.ShutDown(); Run returns.
RunShutDown ==
  /\ rpc = "waitStop"
  /\ stopCh = "closed"
  /\ syncQueue' = ShutDown(syncQueue)
  /\ rpc' = "returned"
  /\ UNCHANGED <<tokens, shutdown, stopCh, synced, ready, wpc, wkey, retry, syncResult, spc,
                 syncRunning, enqSinceGet, passes, tokensGranted, listCalls, reloadCalls,
                 quitGets, batch, resVars, stopVars, statVars, auxVars>>

\* main returns after lbc.Run(): the process and all its goroutines end.
ProcessExit ==
  /\ rpc = "returned"
  /\ rpc' = "exited"
  /\ UNCHANGED <<syncQueue, tokens, shutdown, stopCh, synced, ready, wpc, wkey, retry,
                 syncResult, spc, syncRunning, enqSinceGet, passes, tokensGranted,
                 listCalls, reloadCalls, quitGets, batch, resVars, stopVars, statVars, auxVars>>

\* where a caller is after Stop returned: handleSigterm ends, the /stop
\* handler may be requested again
AfterStop(c) == IF c = "sigterm" THEN "done" ELSE "idle"

\* a Stop that goes on without taking the lock
StopEnterUnlocked(c) ==
  /\ rpc # "exited"
  /\ stopPos[c] = "idle"
  /\ stopCalls < MaxStops
  /\ stopPos' = [stopPos EXCEPT ![c] = "check"]
  /\ stopCalls' = stopCalls + 1
  /\ UNCHANGED <<syncQueue, tokens, shutdown, stopCh, synced, ready, rpc, wpc, wkey, retry,
                 syncResult, spc, syncRunning, enqSinceGet, passes, tokensGranted,
                 listCalls, reloadCalls, quitGets, batch, stopLock, closes, stopAt, resVars, statVars, auxVars>>

\* Stop: lbc.stopLock.Lock(), with the Unlock deferred
StopEnter(c) ==
  /\ rpc # "exited"
  /\ stopPos[c] = "idle"
  /\ stopCalls < MaxStops
  /\ stopLock = "free"
  /\ stopLock' = c
  /\ stopPos' = [stopPos EXCEPT ![c] = "check"]
  /\ stopCalls' = stopCalls + 1
  /\ UNCHANGED <<syncQueue, tokens, shutdown, stopCh, synced, ready, rpc, wpc, wkey, retry,
                 syncResult, spc, syncRunning, enqSinceGet, passes, tokensGranted,
                 listCalls, reloadCalls, quitGets, batch, closes, stopAt, resVars, statVars, auxVars>>

\* Stop: if lbc.shutdown { return }
StopCheck(c) ==
  /\ rpc # "exited"
  /\ stopPos[c] = "check"
  /\ IF shutdown
       THEN stopPos' = [stopPos EXCEPT ![c] = AfterStop(c)] /\ stopLock' = "free"
       ELSE stopPos' = [stopPos EXCEPT ![c] = "close"] /\ UNCHANGED stopLock
  /\ UNCHANGED <<syncQueue, tokens, shutdown, stopCh, synced, ready, rpc, wpc, wkey, retry,
                 syncResult, spc, syncRunning, enqSinceGet, passes, tokensGranted,
                 listCalls, reloadCalls, quitGets, batch, stopCalls, closes, stopAt, resVars, statVars, auxVars>>

\* Stop: lbc.shutdown = true; close(lbc.stopCh); the deferred Unlock
StopClose(c) ==
  /\ rpc # "exited"
  /\ stopPos[c] = "close"
  /\ shutdown' = TRUE
  /\ stopCh' = "closed"
  /\ closes' = closes + 1
  /\ stopAt' = rpc
  /\ stopLock' = "free"
  /\ stopPos' = [stopPos EXCEPT ![c] = AfterStop(c)]
  /\ UNCHANGED <<syncQueue, tokens, synced, ready, rpc, wpc, wkey, retry, syncResult, spc,
                 syncRunning, enqSinceGet, passes, tokensGranted, listCalls, reloadCalls,
                 quitGets, batch, stopCalls, resVars, statVars, auxVars>>

\* Stop(), from the /stop endpoint or the SIGTERM handler.
Stop == \E c \in Callers : StopEnter(c) \/ StopCheck(c) \/ StopClose(c)

\* syncIngress: one getNodeIPAndUpdateIngress pass.
StatusTick ==
  /\ rpc # "exited"
  /\ spc = "tick"
  /\ spc' = "select"
  /\ UNCHANGED <<syncQueue, tokens, shutdown, stopCh, synced, ready, rpc, wpc, wkey, retry,
                 syncResult, syncRunning, enqSinceGet, passes, tokensGranted, listCalls,
                 reloadCalls, quitGets, batch, resVars, stopVars, statVars, auxVars>>

\* syncIngress: the select takes the timer case.
StatusTimer ==
  /\ rpc # "exited"
  /\ spc = "select"
  /\ spc' = "tick"
  /\ UNCHANGED <<syncQueue, tokens, shutdown, stopCh, synced, ready, rpc, wpc, wkey, retry,
                 syncResult, syncRunning, enqSinceGet, passes, tokensGranted, listCalls,
                 reloadCalls, quitGets, batch, resVars, stopVars, statVars, auxVars>>

\* syncIngress: the select takes the stopCh case: the de-registration pass
\* runs and the loop returns.
StatusDeregister ==
  /\ rpc # "exited"
  /\ spc = "select"
  /\ stopCh = "closed"
  /\ spc' = "returned"
  /\ UNCHANGED <<syncQueue, tokens, shutdown, stopCh, synced, ready, rpc, wpc, wkey, retry,
                 syncResult, syncRunning, enqSinceGet, passes, tokensGranted, listCalls,
                 reloadCalls, quitGets, batch, resVars, stopVars, statVars, auxVars>>

-----------------------------------------------------------------------------
(* Resolver state is not used by Spec *)

NoMirror == [unused |-> TRUE]

InitResolverIdle ==
  /\ config = NoMirror
  /\ mirror = NoMirror
  /\ listed = NoMirror
  /\ ingConfig = "none"
  /\ prevConfig = "none"
  /\ runs = 0
  /\ sinkConfig = "none"

\* Status state is used by SpecStatus only
InitStatusIdle ==
  /\ apiIng = NoMirror
  /\ ingCache = NoMirror
  /\ podCache = NoMirror
  /\ stPos = NoMirror
  /\ ticks = 0
  /\ got = NoMirror
  /\ polls = 0

\* Tick state is used by SpecTick only
InitTickIdle ==
  /\ tickIngs = NoMirror
  /\ tickPos = "none"
  /\ tickIdx = 0
  /\ tickCur = NoMirror
  /\ tickLog = <<>>
  /\ rmPass = NoMirror

\* getLoadBalancerIngress has not been called
NoResult == [pods |-> <<>>, lbIngs |-> <<>>]

\* Node state is used by SpecAddress and SpecStatus only
InitAddrIdle ==
  /\ nodeStore = NoMirror
  /\ allowInternalIP = FALSE
  /\ lbResult = NoResult

\* The handled notification is used by SpecNotify only
InitEventIdle == event = NoMirror

\* no mapper has been built
NoMapper == [kind |-> "none"]

\* The annotations and their mappers are used by SpecMapper only
InitMapIdle ==
  /\ annotations = NoMirror
  /\ bcm = NoMapper
  /\ pcm = NoMapper

InitAuxIdle == InitTickIdle /\ InitAddrIdle /\ InitEventIdle /\ InitMapIdle

Init == InitController /\ InitResolverIdle /\ InitStatusIdle /\ InitAuxIdle

Next ==
  \/ Notify
  \/ WorkerStart
  \/ WorkerGetItem
  \/ WorkerGetQuit
  \/ LimiterRefill
  \/ SyncAccept
  \/ SyncList
  \/ SyncResolve
  \/ SyncGetConfigMap
  \/ SyncReload
  \/ SyncReturn
  \/ WorkerDone
  \/ RunStart
  \/ MirrorSynced
  \/ waitForControllerToSync
  \/ RunSpawn
  \/ RunShutDown
  \/ ProcessExit
  \/ Stop
  \/ StatusTick
  \/ StatusTimer
  \/ StatusDeregister


Spec == Init /\ [][Next]_vars

-----------------------------------------------------------------------------
(* Strings, as Go orders and formats them.  A string is the sequence of its  *)
(* character codes.                                                          *)

RECURSIVE StrLess(_, _)
\* a < b on Go strings: bytewise lexicographic order
StrLess(a, b) ==
  IF b = <<>> THEN FALSE
  ELSE IF a = <<>> THEN TRUE
  ELSE IF a[1] # b[1] THEN a[1] < b[1]
  ELSE StrLess(Tail(a), Tail(b))

RECURSIVE Itoa(_)
\* strconv.Itoa for a non-negative number
Itoa(n) == IF n < 10 THEN <<48 + n>> ELSE Itoa(n \div 10) \o <<48 + (n % 10)>>

\* strings.HasPrefix(p, "/")
HasSlashPrefix(p) == p # <<>> /\ p[1] = 47

\* intstr.IntOrString
IntPort(n) == [Type |-> "Int", IntVal |-> n, StrVal |-> <<>>]

StrPort(str) == [Type |-> "String", IntVal |-> 0, StrVal |-> str]

\* IntOrString.String()
PortString(p) == IF p.Type = "String" THEN p.StrVal ELSE Itoa(p.IntVal)

\* strconv.Atoi succeeds: a non-empty string of digits
IsNumeric(str) == str # <<>> /\ \A i \in 1..Len(str) : str[i] \in 48..57

RECURSIVE Atoi(_)
\* strconv.Atoi of a string of digits
Atoi(str) == IF str = <<>> THEN 0 ELSE 10 * Atoi(SubSeq(str, 1, Len(str) - 1)) + (str[Len(str)] - 48)

-----------------------------------------------------------------------------
(* sort.Slice on the short slices of the model: an insertion sort, which     *)
(* keeps elements that compare equal in the order they came in.              *)

\* The less functions handed to sort.Slice by getUpstreamServers
Less(by, x, y) ==
  CASE by = "pem"      -> StrLess(x.Key.Path, y.Key.Path)
    [] by = "upstream" -> StrLess(x.Name, y.Name)
    [] by = "backend"  -> \/ StrLess(x.Address, y.Address)
                          \/ (x.Address = y.Address /\ StrLess(x.Port, y.Port))

RECURSIVE InsertBy(_, _, _)
InsertBy(s, x, by) ==
  IF s = <<>> THEN <<x>>
  ELSE IF Less(by, x, s[Len(s)])
       THEN Append(InsertBy(SubSeq(s, 1, Len(s) - 1), x, by), s[Len(s)])
       ELSE Append(s, x)

\* a slice left in the order it was built
SortSliceSkipped(s, by) == s

RECURSIVE SortSlice(_, _)
SortSlice(s, by) ==
  IF s = <<>> THEN <<>>
  ELSE InsertBy(SortSlice(SubSeq(s, 1, Len(s) - 1), by), s[Len(s)], by)

-----------------------------------------------------------------------------
(* The mirror: the listers' stores.  An object's key is namespace/name.      *)

RECURSIVE Concat(_)
\* append(...) of a sequence of slices, in order
Concat(ss) == IF ss = <<>> THEN <<>> ELSE ss[1] \o Concat(Tail(ss))

\* cache.MetaNamespaceKeyFunc
Key(o) == o.Namespace \o <<47>> \o o.Name

\* Store.GetByKey: exists
Exists(store, key) == \E o \in store : Key(o) = key

\* Store.GetByKey: the object
GetByKey(store, key) == CHOOSE o \in store : Key(o) = key

\* ingressAnnotation(...).getIngressClass(): the value of the class
\* annotation, empty when the annotation is not set
getIngressClass(ing) == IF ing.Class = "unset" THEN "" ELSE ing.Class

\* a class filter that lets every rule pass
validateIngressClassAny(ing) == TRUE

\* a class filter with its test inverted
validateIngressClassInverted(ing) == getIngressClass(ing) \notin {"", config.ingressClass}

\* validateIngressClass: the class annotation is unset, empty or the
\* configured class
validateIngressClass(ing) == getIngressClass(ing) \in {"", config.ingressClass}

-----------------------------------------------------------------------------
(* Endpoints of a service port *)

\* nghttpx.DefaultPortBackendConfig()
DefaultPortBackendConfig ==
  [Proto |-> "http/1.1", TLS |-> FALSE, SNI |-> <<>>, DNS |-> FALSE, Affinity |-> "none"]

\* nghttpx.FixupPortBackendConfig: an unrecognized protocol becomes http/1.1
FixupPortBackendConfig(c) ==
  IF c.Proto \in {"h2", "http/1.1"} THEN c ELSE [c EXCEPT !.Proto = "http/1.1"]

\* nghttpx.NewDefaultServer(): the static placeholder backend
NewDefaultServer ==
  [Address |-> <<49, 50, 55>>, Port |-> Itoa(8181), Protocol |-> "http/1.1",
   TLS |-> FALSE, SNI |-> <<>>, DNS |-> FALSE, Affinity |-> "none"]

\* podutil.FindPort for a named target port: the first container port of
\* that name and protocol; 0 stands for the error
FindPort(pod, servicePort) ==
  LET hits == SelectSeq(pod.Ports, LAMBDA cp : cp.Name = servicePort.TargetPort.StrVal
                                               /\ cp.Protocol = servicePort.Protocol)
  IN  IF hits = <<>> THEN 0 ELSE hits[1].ContainerPort

\* getNamedPortFromPod with the first pod.  pods is the pod lister's
\* store in the order List returns it; 0 stands for the error.
getNamedPortFromPod(pods, svc, servicePort) ==
  LET matched == SelectSeq(pods, LAMBDA p : p.Namespace = svc.Namespace
                                            /\ svc.Selector \subseteq p.Labels)
  IN  IF matched = <<>> THEN 0 ELSE FindPort(matched[1], servicePort)

\* getEndpoints: the switch on servicePort.TargetPort.Type for one endpoint
\* port; the result is targetPort, 0 when the port does not match
TargetPortOf(pods, s, servicePort, epPort) ==
  IF servicePort.TargetPort.Type = "Int"
  THEN IF epPort.Port = servicePort.TargetPort.IntVal THEN epPort.Port ELSE 0
  ELSE IF servicePort.TargetPort.StrVal = <<>> THEN 0
  ELSE LET port == IF IsNumeric(servicePort.TargetPort.StrVal)
                   THEN Atoi(servicePort.TargetPort.StrVal)
                   ELSE getNamedPortFromPod(pods, s, servicePort)
       IN  IF port # 0 /\ epPort.Port = port THEN port ELSE 0

\* getEndpoints: the backends of one endpoint port of one subset
PortServers(pods, s, servicePort, proto, cfg, ss, epPort) ==
  LET targetPort == TargetPortOf(pods, s, servicePort, epPort)
  IN  IF epPort.Protocol # proto \/ targetPort = 0 THEN <<>>
      ELSE [i \in 1..Len(ss.Addresses) |->
              [Address |-> ss.Addresses[i], Port |-> Itoa(targetPort),
               Protocol |-> cfg.Proto, TLS |-> cfg.TLS, SNI |-> cfg.SNI, DNS |-> cfg.DNS,
               Affinity |-> cfg.Affinity]]

\* getEndpoints(s, servicePort, proto, portBackendConfig)
getEndpoints(pods, s, servicePort, proto, cfg) ==
  IF ~Exists(mirror.eps, Key(s)) THEN <<>>
  ELSE LET ep == GetByKey(mirror.eps, Key(s))
       IN  Concat([i \in 1..Len(ep.Subsets) |->
             Concat([j \in 1..Len(ep.Subsets[i].Ports) |->
               PortServers(pods, s, servicePort, proto, cfg, ep.Subsets[i],
                           ep.Subsets[i].Ports[j])])])

\* a default Upstream that never looks at the default service's endpoints
getDefaultUpstreamPlaceholderOnly(pods) ==
  [Name |-> config.defaultSvc, Host |-> <<>>, Path |-> <<>>,
   RedirectIfNotTLS |-> config.defaultTLSSecret # <<>>,
   Backends |-> <<NewDefaultServer>>]

\* getDefaultUpstream()
\* a default backend without the placeholder server
getDefaultUpstreamNoPlaceholder(pods) ==
  LET upstream == [Name |-> config.defaultSvc, Host |-> <<>>, Path |-> <<>>,
                   RedirectIfNotTLS |-> config.defaultTLSSecret # <<>>,
                   Backends |-> <<>>]
  IN  IF ~Exists(mirror.svcs, config.defaultSvc) THEN upstream
      ELSE LET svc == GetByKey(mirror.svcs, config.defaultSvc)
           IN  [upstream EXCEPT !.Backends =
                  getEndpoints(pods, svc, svc.Ports[1], "TCP", DefaultPortBackendConfig)]

getDefaultUpstream(pods) ==
  LET upstream == [Name |-> config.defaultSvc, Host |-> <<>>, Path |-> <<>>,
                   RedirectIfNotTLS |-> config.defaultTLSSecret # <<>>,
                   Backends |-> <<>>]
  IN  IF ~Exists(mirror.svcs, config.defaultSvc)
      THEN [upstream EXCEPT !.Backends = <<NewDefaultServer>>]
      ELSE LET svc == GetByKey(mirror.svcs, config.defaultSvc)
               eps == getEndpoints(pods, svc, svc.Ports[1], "TCP", DefaultPortBackendConfig)
           IN  IF eps = <<>>
               THEN [upstream EXCEPT !.Backends = <<NewDefaultServer>>]
               ELSE [upstream EXCEPT !.Backends = eps]

-----------------------------------------------------------------------------
(* TLS credentials *)

\* nghttpx.TLSCredPrefix + nghttpx.CreateTLSCred: the identity of a
\* credential is its key path, derived from the Secret's namespace and name
KeyPath(secret) == secret.Namespace \o <<95>> \o secret.Name

\* a nil *nghttpx.TLSCred
NilCred == [Key |-> [Path |-> <<>>], Checksum |-> 0]

\* createTLSCredFromSecret: [err, cred]
createTLSCredFromSecret(secret) ==
  IF secret.Cert = "none" \/ secret.PrivKey = "none" \/ secret.Cert = "bad"
     \/ secret.PrivKey = "bad"
  THEN [err |-> TRUE, cred |-> NilCred]
  ELSE [err |-> FALSE,
        cred |-> [Key |-> [Path |-> KeyPath(secret)], Checksum |-> secret.Version]]

\* getTLSCredFromSecret(secretKey): [err, cred]
getTLSCredFromSecret(secretKey) ==
  IF ~Exists(mirror.secrets, secretKey) THEN [err |-> TRUE, cred |-> NilCred]
  ELSE createTLSCredFromSecret(GetByKey(mirror.secrets, secretKey))

\* getTLSCredFromIngress: one credential per entry of ing.Spec.TLS
IngressCreds(ing) ==
  [i \in 1..Len(ing.TLS) |-> getTLSCredFromSecret(ing.Namespace \o <<47>> \o ing.TLS[i])]

\* a getTLSCredFromIngress that leaves out the Secrets that fail and keeps
\* the credentials of the others
getTLSCredFromIngressKeepValid(ing) ==
  [err |-> FALSE,
   pems |-> LET good == SelectSeq(IngressCreds(ing), LAMBDA r : ~r.err)
            IN  [i \in 1..Len(good) |-> good[i].cred]]

\* getTLSCredFromIngress(ing): [err, pems]; the first Secret that is
\* missing or invalid fails the whole call
getTLSCredFromIngress(ing) ==
  IF \E i \in 1..Len(ing.TLS) : IngressCreds(ing)[i].err
  THEN [err |-> TRUE, pems |-> <<>>]
  ELSE [err |-> FALSE, pems |-> [i \in 1..Len(ing.TLS) |-> IngressCreds(ing)[i].cred]]

RECURSIVE RemoveDuplicatePems(_)
\* nghttpx.RemoveDuplicatePems: drops an entry whose identity equals that of
\* the entry before it, on a list sorted by identity
RemoveDuplicatePems(pems) ==
  IF Len(pems) <= 1 THEN pems
  ELSE LET front == RemoveDuplicatePems(SubSeq(pems, 1, Len(pems) - 1))
           last  == pems[Len(pems)]
       IN  IF front[Len(front)].Key.Path = last.Key.Path THEN front ELSE Append(front, last)

\* getUpstreamServers: remove the first entry with the default's key path
RemoveDefaultPemKeepAll(pems, def) == pems

RemoveDefaultPem(pems, def) ==
  IF \E i \in 1..Len(pems) : pems[i].Key.Path = def.Key.Path
  THEN LET i == CHOOSE k \in 1..Len(pems) :
                  /\ pems[k].Key.Path = def.Key.Path
                  /\ \A l \in 1..(k - 1) : pems[l].Key.Path # def.Key.Path
       IN  SubSeq(pems, 1, i - 1) \o SubSeq(pems, i + 1, Len(pems))
  ELSE pems

-----------------------------------------------------------------------------
(* getUpstreamServers *)

\* upsName := fmt.Sprintf("%v/%v,%v;%v%v", namespace, service, port, host, path)
UpstreamName(ing, rule, path, normalizedPath) ==
  ing.Namespace \o <<47>> \o path.ServiceName \o <<44>> \o PortString(path.ServicePort)
    \o <<59>> \o rule.Host \o normalizedPath

\* a port loop without the break: the last port that matches bp wins
MatchingPortLast(svc, bp) ==
  LET hits == {i \in 1..Len(svc.Ports) :
                 \/ Itoa(svc.Ports[i].Port) = bp
                 \/ PortString(svc.Ports[i].TargetPort) = bp
                 \/ svc.Ports[i].Name = bp}
  IN  IF hits = {} THEN 0 ELSE CHOOSE i \in hits : \A j \in hits : i >= j

\* the service port loop: index of the first port that matches bp, 0 if none
MatchingPort(svc, bp) ==
  LET hits == {i \in 1..Len(svc.Ports) :
                 \/ Itoa(svc.Ports[i].Port) = bp
                 \/ PortString(svc.Ports[i].TargetPort) = bp
                 \/ svc.Ports[i].Name = bp}
  IN  IF hits = {} THEN 0 ELSE CHOOSE i \in hits : \A j \in hits : i <= j

\* the backends of one path: those of the first matching service port
PathBackends(pods, ing, path) ==
  LET svcKey == ing.Namespace \o <<47>> \o path.ServiceName
      bp     == PortString(path.ServicePort)
  IN  IF ~Exists(mirror.svcs, svcKey) THEN <<>>
      ELSE LET svc == GetByKey(mirror.svcs, svcKey)
               i   == MatchingPort(svc, bp)
               cfg == IF <<path.ServiceName, bp>> \in DOMAIN ing.BackendConfig
                      THEN FixupPortBackendConfig(ing.BackendConfig[<<path.ServiceName, bp>>])
                      ELSE DefaultPortBackendConfig
           IN  IF i = 0 THEN <<>>
               ELSE getEndpoints(pods, svc, svc.Ports[i], "TCP", cfg)

\* a path that would be kept although it has no backend
PathUpstreamsKeepEmpty(pods, ing, rule, path, requireTLS) ==
  IF path.Path # <<>> /\ ~HasSlashPrefix(path.Path) THEN <<>>
  ELSE LET normalizedPath == IF path.Path = <<>> THEN <<47>> ELSE path.Path
       IN  << [Name |-> UpstreamName(ing, rule, path, normalizedPath),
               Host |-> rule.Host,
               Path |-> normalizedPath,
               RedirectIfNotTLS |-> requireTLS \/ config.defaultTLSSecret # <<>>,
               Backends |-> PathBackends(pods, ing, path)] >>

\* one path of one rule: no Upstream or one Upstream
PathUpstreams(pods, ing, rule, path, requireTLS) ==
  IF path.Path # <<>> /\ ~HasSlashPrefix(path.Path) THEN <<>>
  ELSE LET normalizedPath == IF path.Path = <<>> THEN <<47>> ELSE path.Path
           backends == PathBackends(pods, ing, path)
       IN  IF backends = <<>> THEN <<>>
           ELSE << [Name |-> UpstreamName(ing, rule, path, normalizedPath),
                    Host |-> rule.Host,
                    Path |-> normalizedPath,
                    RedirectIfNotTLS |-> requireTLS \/ config.defaultTLSSecret # <<>>,
                    Backends |-> backends] >>

\* the rules and paths of one Ingress
RuleUpstreams(pods, ing, requireTLS) ==
  Concat([r \in 1..Len(ing.Rules) |->
    IF ~ing.Rules[r].HTTP THEN <<>>
    ELSE Concat([p \in 1..Len(ing.Rules[r].Paths) |->
           PathUpstreams(pods, ing, ing.Rules[r], ing.Rules[r].Paths[p], requireTLS)])])

\* an iteration that drops the credentials of a rule whose Secret cannot be
\* processed, and keeps its paths
IngressContributionKeepsPaths(pods, ing) ==
  IF ~validateIngressClass(ing) THEN [pems |-> <<>>, upstreams |-> <<>>]
  ELSE LET tls == getTLSCredFromIngress(ing)
       IN  IF tls.err THEN [pems |-> <<>>, upstreams |-> RuleUpstreams(pods, ing, FALSE)]
           ELSE [pems |-> tls.pems,
                 upstreams |-> RuleUpstreams(pods, ing, Len(tls.pems) > 0)]

\* an iteration that leaves out a rule whose status already holds an address
IngressContributionUnlessAdvertised(pods, ing) ==
  IF ~validateIngressClass(ing) \/ ing.Status # <<>> THEN [pems |-> <<>>, upstreams |-> <<>>]
  ELSE LET tls == getTLSCredFromIngress(ing)
       IN  IF tls.err THEN [pems |-> <<>>, upstreams |-> <<>>]
           ELSE [pems |-> tls.pems,
                 upstreams |-> RuleUpstreams(pods, ing, Len(tls.pems) > 0)]

\* one iteration of the loop over ings: [pems, upstreams]
IngressContribution(pods, ing) ==
  IF ~validateIngressClass(ing) THEN [pems |-> <<>>, upstreams |-> <<>>]
  ELSE LET tls == getTLSCredFromIngress(ing)
       IN  IF tls.err THEN [pems |-> <<>>, upstreams |-> <<>>]
           ELSE [pems |-> tls.pems,
                 upstreams |-> RuleUpstreams(pods, ing, Len(tls.pems) > 0)]

\* the sorted backends kept as they are
UniqBackendsKeepAll(backends) == backends

\* the duplicate removal on the sorted backends of one Upstream
RECURSIVE UniqBackends(_)
UniqBackends(backends) ==
  IF Len(backends) <= 1 THEN backends
  ELSE LET front == UniqBackends(SubSeq(backends, 1, Len(backends) - 1))
           sv    == backends[Len(backends)]
           lastBackend == front[Len(front)]
       IN  IF lastBackend.Address = sv.Address /\ lastBackend.Port = sv.Port
           THEN front ELSE Append(front, sv)

\* the default backend added whatever the rules produced
DefaultUpstreamNeverFound(upstreams) == FALSE

\* a search for the default backend that knows the empty path only
DefaultUpstreamFoundEmptyPath(upstreams) ==
  \E i \in 1..Len(upstreams) : upstreams[i].Host = <<>> /\ upstreams[i].Path = <<>>

\* whether the rules produced the default backend
DefaultUpstreamFound(upstreams) ==
  \E i \in 1..Len(upstreams) :
     upstreams[i].Host = <<>> /\ upstreams[i].Path \in {<<>>, <<47>>}

\* the default TLS credential: that of lbc.defaultTLSSecret when it is set
DefaultCred ==
  IF config.defaultTLSSecret # <<>>
  THEN getTLSCredFromSecret(config.defaultTLSSecret)
  ELSE [err |-> FALSE, cred |-> NilCred]

\* a pass that would fail on any Secret an in-scope rule names
PassFailsOnAnySecret(ings) ==
  \/ DefaultCred.err
  \/ \E i \in 1..Len(ings) : validateIngressClass(ings[i]) /\ getTLSCredFromIngress(ings[i]).err

\* the returns of getUpstreamServers with an error: the default TLS secret
\* cannot be turned into a credential
PassFails(ings) == DefaultCred.err

\* getUpstreamServers(ings): [err, TLS, DefaultTLSCred, SubTLSCred, Upstreams].
\* ings and pods are the Ingress and Pod stores in the order List returns them.
getUpstreamServers(ings, pods) ==
  LET defCred == DefaultCred
      contrib == [i \in 1..Len(ings) |-> IngressContribution(pods, ings[i])]
      pems    == RemoveDuplicatePems(
                   SortSlice(Concat([i \in 1..Len(ings) |-> contrib[i].pems]), "pem"))
      found   == Concat([i \in 1..Len(ings) |-> contrib[i].upstreams])
      withDefault == IF DefaultUpstreamFound(found) THEN found
                     ELSE Append(found, getDefaultUpstream(pods))
      sorted  == SortSlice(withDefault, "upstream")
      upstreams == [i \in 1..Len(sorted) |->
                     [sorted[i] EXCEPT !.Backends = UniqBackends(SortSlice(@, "backend"))]]
  IN  IF PassFails(ings) THEN [err |-> TRUE]
      ELSE IF config.defaultTLSSecret # <<>>
      THEN [err |-> FALSE, TLS |-> TRUE, DefaultTLSCred |-> defCred.cred,
            SubTLSCred |-> RemoveDefaultPem(pems, defCred.cred), Upstreams |-> upstreams]
      ELSE IF Len(pems) > 0
      THEN [err |-> FALSE, TLS |-> TRUE, DefaultTLSCred |-> pems[1],
            SubTLSCred |-> Tail(pems), Upstreams |-> upstreams]
      ELSE [err |-> FALSE, TLS |-> FALSE, DefaultTLSCred |-> NilCred,
            SubTLSCred |-> <<>>, Upstreams |-> upstreams]

-----------------------------------------------------------------------------
(* Mirror snapshots the resolver is applied to (SpecResolver).               *)
(* Names: namespace "n"; services "s", "t", "d"; secrets "c", "e"; host "h"; *)
(* paths "/", "/a", "x"; port name "w"; addresses "1", "10", "2".            *)

Ingress(name, class, tls, rules, bc) ==
  [Namespace |-> <<110>>, Name |-> name, Class |-> class, TLS |-> tls, Rules |-> rules,
   BackendConfig |-> bc]

Rule(host, paths) == [Host |-> host, HTTP |-> TRUE, Paths |-> paths]

Path(p, svc, port) == [Path |-> p, ServiceName |-> svc, ServicePort |-> port]

\* Ingresses a cluster may hold (Class "unset": no class annotation): two
\* that declare the same host, path, service and port (one with a TLS section and a per-port h2 setting), one with two
\* paths and a named port, one of another class, one with a rule without
\* HTTP and a path without leading slash, one more declaring host "" path "/"
\* (with a TLS section).
IngressPool ==
  { Ingress(<<105, 49>>, "unset", <<>>,
            <<Rule(<<>>, <<Path(<<47>>, <<115>>, IntPort(80))>>)>>, <<>>),
    Ingress(<<105, 50>>, "nghttpx", << <<99>> >>,
            <<Rule(<<>>, <<Path(<<47>>, <<115>>, IntPort(80))>>)>>,
            (<< <<115>>, Itoa(80) >> :> [Proto |-> "h2", TLS |-> FALSE, SNI |-> <<>>,
                                         DNS |-> FALSE, Affinity |-> "none"])),
    Ingress(<<105, 51>>, "", << <<101>>, <<99>> >>,
            <<Rule(<<104>>, <<Path(<<>>, <<116>>, StrPort(<<119>>)),
                              Path(<<47, 97>>, <<115>>, IntPort(80))>>)>>, <<>>),
    Ingress(<<105, 52>>, "other", << <<101>> >>,
            <<Rule(<<>>, <<Path(<<47>>, <<115>>, IntPort(80))>>)>>, <<>>),
    Ingress(<<105, 53>>, "", <<>>,
            << [Host |-> <<104>>, HTTP |-> FALSE, Paths |-> <<>>],
               Rule(<<>>, <<Path(<<120>>, <<115>>, IntPort(80))>>) >>, <<>>),
    Ingress(<<105, 54>>, "", << <<101>> >>,
            <<Rule(<<>>, <<Path(<<47>>, <<116>>, StrPort(<<119>>))>>)>>, <<>>) }

ServicePort(name, port, target) ==
  [Name |-> name, Port |-> port, TargetPort |-> target, Protocol |-> "TCP"]

Service(name, ports) ==
  [Namespace |-> <<110>>, Name |-> name, Selector |-> {name}, Ports |-> ports]

Endpoints(name, subsets) == [Namespace |-> <<110>>, Name |-> name, Subsets |-> subsets]

EndpointPort(port, proto) == [Port |-> port, Protocol |-> proto]

\* Service "s" and its Endpoints: absent; without Endpoints; with Endpoints
\* that repeat an address; with two ports that both match "80"
ScenariosS ==
  { [svcs |-> {}, eps |-> {}],
    [svcs |-> {Service(<<115>>, <<ServicePort(<<>>, 80, IntPort(8080))>>)}, eps |-> {}],
    [svcs |-> {Service(<<115>>, <<ServicePort(<<>>, 80, IntPort(8080))>>)},
     eps  |-> {Endpoints(<<115>>,
                 << [Addresses |-> << <<50>>, <<49>>, <<49, 48>> >>,
                     Ports |-> <<EndpointPort(8080, "TCP")>>],
                    [Addresses |-> << <<49>> >>,
                     Ports |-> <<EndpointPort(8080, "TCP"), EndpointPort(9090, "UDP"),
                                 EndpointPort(80, "TCP")>>] >>)}],
    [svcs |-> {Service(<<115>>, <<ServicePort(<<>>, 80, IntPort(9090)),
                                  ServicePort(<<>>, 81, StrPort(Itoa(80)))>>)},
     eps  |-> {Endpoints(<<115>>,
                 << [Addresses |-> << <<49>> >>,
                     Ports |-> <<EndpointPort(9090, "UDP"), EndpointPort(80, "TCP")>>] >>)}] }

Pod(name, port) ==
  [Namespace |-> <<110>>, Name |-> name, Labels |-> {<<116>>},
   Ports |-> <<[Name |-> <<119>>, ContainerPort |-> port, Protocol |-> "TCP"]>>]

\* Service "t" with the named target port "w", its Endpoints and the Pods it
\* selects: absent; no Pod; one Pod; two Pods whose "w" ports differ
ScenariosT ==
  { [svcs |-> {}, eps |-> {}, pods |-> {}] }
  \cup
  { [svcs |-> {Service(<<116>>, <<ServicePort(<<119>>, 80, StrPort(<<119>>))>>)},
     eps  |-> {Endpoints(<<116>>,
                 << [Addresses |-> << <<49, 48>>, <<50>> >>,
                     Ports |-> <<EndpointPort(8081, "TCP"), EndpointPort(8082, "TCP")>>] >>)},
     pods |-> ps] :
      ps \in { {}, {Pod(<<112, 97>>, 8081)}, {Pod(<<112, 97>>, 8081), Pod(<<112, 98>>, 8082)} } }

\* The default backend Service "d": absent; without Endpoints; with Endpoints
ScenariosD ==
  { [svcs |-> {}, eps |-> {}],
    [svcs |-> {Service(<<100>>, <<ServicePort(<<>>, 80, IntPort(8080))>>)}, eps |-> {}],
    [svcs |-> {Service(<<100>>, <<ServicePort(<<>>, 80, IntPort(8080))>>)},
     eps  |-> {Endpoints(<<100>>,
                 << [Addresses |-> << <<50>>, <<50>> >>,
                     Ports |-> <<EndpointPort(8080, "TCP")>>] >>)}] }

Secret(name, cert, key) ==
  [Namespace |-> <<110>>, Name |-> name, Cert |-> cert, PrivKey |-> key, Version |-> 1]

\* Secrets "c" and "e": "c" absent, with a certificate that does not
\* validate, or valid; "e" with a malformed key, or valid
ScenariosSecrets ==
  { {Secret(<<101>>, "good", "bad")},
    {Secret(<<99>>, "bad", "good"), Secret(<<101>>, "good", "good")},
    {Secret(<<99>>, "good", "good"), Secret(<<101>>, "good", "bad")},
    {Secret(<<99>>, "good", "good"), Secret(<<101>>, "good", "good")} }

\* Config: the default backend service n/d, class nghttpx, and the default
\* TLS secret unset or n/c
Configs ==
  { [defaultSvc |-> <<110, 47, 100>>, ingressClass |-> "nghttpx", defaultTLSSecret |-> dts] :
      dts \in { <<>>, <<110, 47, 99>> } }

\* The orders in which List may return the objects of a store
Orders(S) ==
  {f \in [1..Cardinality(S) -> S] : \A i, j \in 1..Cardinality(S) : i # j => f[i] # f[j]}

Mirrors ==
  { [ings |-> is, svcs |-> s.svcs \cup t.svcs \cup d.svcs, eps |-> s.eps \cup t.eps \cup d.eps,
     pods |-> t.pods, secrets |-> sec] :
      is \in {x \in SUBSET IngressPool : Cardinality(x) <= MaxIngs},
      s \in ScenariosS, t \in ScenariosT, d \in ScenariosD,
      sec \in ScenariosSecrets }

InitResolver ==
  /\ InitController
  /\ config \in Configs
  /\ mirror \in Mirrors
  /\ listed = [ings |-> <<>>, pods |-> <<>>]
  /\ ingConfig = "none"
  /\ prevConfig = "none"
  /\ runs = 0
  /\ sinkConfig = "none"
  /\ InitStatusIdle
  /\ InitAuxIdle

\* One pass of sync on the mirror: the rules and the pods come in whatever
\* order the stores list them; an error of getUpstreamServers returns, and
\* otherwise the model goes to the sink (the ConfigMap lookup on the store
\* returns no error).
ResolvePass ==
  /\ runs < MaxRuns
  /\ \E ings \in Orders(mirror.ings), pods \in Orders(mirror.pods) :
       LET result == getUpstreamServers(ings, pods)
       IN  /\ listed' = [ings |-> ings, pods |-> pods]
           /\ ingConfig' = result
           /\ sinkConfig' = IF result.err THEN sinkConfig ELSE result
  /\ prevConfig' = ingConfig
  /\ runs' = runs + 1
  /\ UNCHANGED <<config, mirror, ctlVars, statVars, auxVars>>

NextResolver == ResolvePass

SpecResolver == InitResolver /\ [][NextResolver]_vars

-----------------------------------------------------------------------------
(* Mirrors that hold a single rule with the paths "/" and "/api"             *)
(* (SpecScenario): the rule is for the empty host or for host "h", of no     *)
(* class or of the configured class; "/" goes to port 80 of service "s" and  *)
(* "/api" to the named port "w" of service "t".                              *)

ScenarioIngresses ==
  { Ingress(<<105, 55>>, class, <<>>,
            <<Rule(host, <<Path(<<47>>, <<115>>, IntPort(80)),
                           Path(<<47, 97, 112, 105>>, <<116>>, StrPort(<<119>>))>>)>>, <<>>) :
      class \in {"unset", "nghttpx"}, host \in {<<>>, <<104>>} }

\* a Pod selected by service "t" whose only container port is named "v"
PodOtherPort(name, port) ==
  [Namespace |-> <<110>>, Name |-> name, Labels |-> {<<116>>},
   Ports |-> <<[Name |-> <<118>>, ContainerPort |-> port, Protocol |-> "TCP"]>>]

\* Service "t" as in ScenariosT, and also: one Pod without a port named "w";
\* one Pod with and one without it
ScenariosNamed ==
  ScenariosT
  \cup
  { [svcs |-> {Service(<<116>>, <<ServicePort(<<119>>, 80, StrPort(<<119>>))>>)},
     eps  |-> {Endpoints(<<116>>,
                 << [Addresses |-> << <<49, 48>>, <<50>> >>,
                     Ports |-> <<EndpointPort(8081, "TCP"), EndpointPort(8082, "TCP")>>] >>)},
     pods |-> ps] :
      ps \in { {PodOtherPort(<<112, 99>>, 8081)},
               {Pod(<<112, 97>>, 8081), PodOtherPort(<<112, 99>>, 8081)} } }

\* Service "s" whose port 80 has no target port (the zero IntOrString), with
\* an endpoint that listens on 80
ScenariosOmitted ==
  { [svcs |-> {Service(<<115>>, <<ServicePort(<<>>, 80, IntPort(0))>>)},
     eps  |-> {Endpoints(<<115>>,
                 << [Addresses |-> << <<49>> >>,
                     Ports |-> <<EndpointPort(80, "TCP")>>] >>)}] }

ScenarioMirrors ==
  { [ings |-> {ing}, svcs |-> s.svcs \cup t.svcs \cup d.svcs,
     eps |-> s.eps \cup t.eps \cup d.eps, pods |-> t.pods,
     secrets |-> {Secret(<<99>>, "good", "good")}] :
      ing \in ScenarioIngresses, s \in ScenariosS \cup ScenariosOmitted, t \in ScenariosNamed,
      d \in ScenariosD }

InitScenario ==
  /\ InitController
  /\ config \in Configs
  /\ mirror \in ScenarioMirrors
  /\ listed = [ings |-> <<>>, pods |-> <<>>]
  /\ ingConfig = "none"
  /\ prevConfig = "none"
  /\ runs = 0
  /\ sinkConfig = "none"
  /\ InitStatusIdle
  /\ InitAuxIdle

SpecScenario == InitScenario /\ [][NextResolver]_vars

-----------------------------------------------------------------------------
(* Properties of the work queue, the worker and the limiter (Spec) *)

\* C1: enqueues coalesce.  The queue never holds more than one pending
\* recompute item; whatever number of accepted enqueue calls precede a
\* dequeue while no pass is in flight, exactly one item is pending for them,
\* and once the worker has taken it nothing is left pending: they are served
\* by that one execution of sync.
C1_EnqueueCoalesces ==
  /\ Len(syncQueue.queue) <= 1
  /\ (enqSinceGet >= 1 /\ syncQueue.processing = {}) => syncQueue.queue = <<syncKey>>
  /\ (wpc \in InSync /\ enqSinceGet = 0) => (syncQueue.queue = <<>> /\ syncQueue.dirty = {})

\* Several enqueues were taken by one dequeue and nothing is left pending.
C1_Witness ==
  /\ batch >= 2
  /\ wpc \in InSync
  /\ enqSinceGet = 0
  /\ syncQueue.queue = <<>>

\* C2: at most one execution of sync is in progress at any time, and one is
\* in progress only while the queue worker is inside sync: handlers and the
\* status loop never run it.
C2_SyncIsSerial ==
  /\ syncRunning <= 1
  /\ (syncRunning = 1) <=> (wpc \in InSync)

\* sync is at the sink while a handler has enqueued and the status loop ticks.
C2_Witness ==
  /\ wpc = "reload"
  /\ syncRunning = 1
  /\ enqSinceGet >= 1
  /\ spc = "tick"

\* C3: when the last pass returned an error and the queue still accepts work,
\* the key is queued again, so another pass runs without a new notification.
C3_ErrorRequeues ==
  (wpc = "get" /\ syncResult \in SyncErrors /\ ~syncQueue.shuttingDown)
    => syncQueue.queue # <<>>

\* C4: every pass takes a limiter token before it lists the rules or calls
\* the sink: the List calls and the CheckAndReload calls made never exceed
\* the tokens granted, and a pass past Accept has been granted its token.
C4_TokenBeforeWork ==
  /\ listCalls <= tokensGranted
  /\ reloadCalls <= tokensGranted
  /\ tokensGranted <= passes
  /\ (wpc \in {"list", "resolve", "getcm", "reload"}) => tokensGranted = passes

\* A second pass has reached the sink, each pass with its own token.
C4_Witness ==
  /\ reloadCalls >= 2
  /\ tokensGranted = reloadCalls

\* C5: once Get has reported that the queue is shut down, the worker makes no
\* further Get call.
C5_WorkerExitsOnQuit == quitGets <= 1

-----------------------------------------------------------------------------
(* Properties of the Configuration Model (SpecResolver) *)

\* a model was emitted by the last run
Emitted == runs >= 1 /\ ~ingConfig.err

\* the Upstreams with empty host and the given paths
UpstreamsAt(paths) ==
  {i \in 1..Len(ingConfig.Upstreams) :
     ingConfig.Upstreams[i].Host = <<>> /\ ingConfig.Upstreams[i].Path \in paths}

\* the in-scope rule paths with host "" and path "/" (or "") that resolve to
\* at least one backend
DeclaredDefaults ==
  {t \in mirror.ings \X (1..2) \X (1..2) :
     /\ validateIngressClass(t[1])
     /\ ~getTLSCredFromIngress(t[1]).err
     /\ t[2] <= Len(t[1].Rules)
     /\ t[1].Rules[t[2]].HTTP
     /\ t[1].Rules[t[2]].Host = <<>>
     /\ t[3] <= Len(t[1].Rules[t[2]].Paths)
     /\ t[1].Rules[t[2]].Paths[t[3]].Path \in {<<>>, <<47>>}
     /\ PathBackends(listed.pods, t[1], t[1].Rules[t[2]].Paths[t[3]]) # <<>>}

\* C6 as claimed: every emitted model contains exactly one Upstream with host
\* "" and path "/".
C6_ExactlyOneDefault == Emitted => Cardinality(UpstreamsAt({<<47>>})) = 1

\* C6 as amended: every emitted model contains a catch-all Upstream.  When no
\* in-scope rule path with host "" and path "/" resolves to a backend, it is
\* the one synthesized default, named after the default service, whose path
\* is empty; otherwise nothing is synthesized and there is one Upstream with
\* host "" and path "/" for each such rule path.
C6_DefaultUpstreams ==
  Emitted =>
    IF DeclaredDefaults = {}
    THEN /\ UpstreamsAt({<<47>>}) = {}
         /\ Cardinality(UpstreamsAt({<<>>})) = 1
         /\ \A i \in UpstreamsAt({<<>>}) : ingConfig.Upstreams[i].Name = config.defaultSvc
    ELSE /\ UpstreamsAt({<<>>}) = {}
         /\ Cardinality(UpstreamsAt({<<47>>})) = Cardinality(DeclaredDefaults)

\* Two in-scope rules declared host "" with path "/" and both were resolved.
C6_Witness ==
  /\ Emitted
  /\ Cardinality(DeclaredDefaults) = 2
  /\ Cardinality(UpstreamsAt({<<47>>})) = 2

\* C7: in every emitted model the backends of every Upstream are in strictly
\* ascending (address, port) order, so no two neighbours are equal in both.
C7_BackendsSortedUnique ==
  Emitted =>
    \A i \in 1..Len(ingConfig.Upstreams) :
      LET b == ingConfig.Upstreams[i].Backends
      IN  \A k \in 1..(Len(b) - 1) :
            \/ StrLess(b[k].Address, b[k + 1].Address)
            \/ (b[k].Address = b[k + 1].Address /\ StrLess(b[k].Port, b[k + 1].Port))

\* The Endpoints listed an address twice and out of order; three backends
\* were emitted for it.
C7_Witness ==
  /\ Emitted
  /\ \E ep \in mirror.eps : Len(ep.Subsets) = 2 /\ Len(ep.Subsets[1].Addresses) = 3
  /\ \E i \in 1..Len(ingConfig.Upstreams) : Len(ingConfig.Upstreams[i].Backends) = 3

\* C8: every Upstream of every emitted model has at least one backend.
C8_NoEmptyUpstream ==
  Emitted => \A i \in 1..Len(ingConfig.Upstreams) : ingConfig.Upstreams[i].Backends # <<>>

\* In-scope rules point at services that are missing or have no endpoints:
\* the model holds the synthesized default alone, with the placeholder.
C8_Witness ==
  /\ Emitted
  /\ \E ing \in mirror.ings : validateIngressClass(ing) /\ ~getTLSCredFromIngress(ing).err
  /\ mirror.eps = {}
  /\ \E svc \in mirror.svcs : svc.Name = <<115>>
  /\ Len(ingConfig.Upstreams) = 1
  /\ ingConfig.Upstreams[1].Backends = <<NewDefaultServer>>

\* the default credential, if any, followed by the sub-credentials
AllCreds ==
  (IF ingConfig.DefaultTLSCred = NilCred THEN <<>> ELSE <<ingConfig.DefaultTLSCred>>)
    \o ingConfig.SubTLSCred

\* C9: in every emitted model no two credentials among the default and the
\* sub-credentials share an identity; in particular the default credential is
\* not in the sub-credential list.
C9_CredsDistinct ==
  Emitted =>
    \A i, j \in 1..Len(AllCreds) : i # j => AllCreds[i].Key.Path # AllCreds[j].Key.Path

\* The configured default TLS secret is also named by an in-scope rule, next
\* to another secret, which ends up as the only sub-credential.
C9_Witness ==
  /\ Emitted
  /\ config.defaultTLSSecret # <<>>
  /\ \E ing \in mirror.ings :
       /\ validateIngressClass(ing)
       /\ ~getTLSCredFromIngress(ing).err
       /\ Len(ing.TLS) = 2
  /\ Len(ingConfig.SubTLSCred) = 1

\* C10: two runs on the same mirror contents return identical models,
\* whatever the order in which List returned the rules and the pods.
C10_Deterministic == runs >= 2 => ingConfig = prevConfig

-----------------------------------------------------------------------------
(* Isolation of failures, class filter, scenarios (SpecResolver) *)

\* the Secret of that key is absent, or its certificate or key is malformed
\* or does not validate
BrokenSecret(key) ==
  \/ ~Exists(mirror.secrets, key)
  \/ LET sec == GetByKey(mirror.secrets, key)
     IN  sec.Cert # "good" \/ sec.PrivKey # "good"

\* the rule passes the class filter and names a broken Secret in its TLS section
NamesBrokenSecret(ing) ==
  \E i \in 1..Len(ing.TLS) : BrokenSecret(ing.Namespace \o <<47>> \o ing.TLS[i])

\* the rule passes the class filter and every Secret it names is usable
Healthy(ing) == validateIngressClass(ing) /\ ~NamesBrokenSecret(ing)

\* the Upstreams the rule's paths resolve to, with the pods as last listed
Resolvable(ing) == RuleUpstreams(listed.pods, ing, Len(ing.TLS) > 0)

\* the emitted model holds that Upstream (before the backends are sorted)
Holds(u) ==
  \E i \in 1..Len(ingConfig.Upstreams) :
     /\ ingConfig.Upstreams[i].Name = u.Name
     /\ ingConfig.Upstreams[i].Host = u.Host
     /\ ingConfig.Upstreams[i].Path = u.Path
     /\ ingConfig.Upstreams[i].RedirectIfNotTLS = u.RedirectIfNotTLS

InScope(ing) == ing.Class \in {"unset", "", config.ingressClass}

\* an Upstream as the model holds it: backends sorted, duplicates removed
Finished(u) == [u EXCEPT !.Backends = UniqBackends(SortSlice(@, "backend"))]

\* the Upstream comes from a path of an in-scope rule, or is the default
FromInScope(u) ==
  \/ u = Finished(getDefaultUpstream(listed.pods))
  \/ \E ing \in mirror.ings :
       /\ InScope(ing)
       /\ \E k \in 1..Len(Resolvable(ing)) : u = Finished(Resolvable(ing)[k])

\* the credential is that of the default TLS secret or of a Secret named by
\* an in-scope rule
CredFromInScope(c) ==
  \/ /\ config.defaultTLSSecret # <<>>
     /\ \E sec \in mirror.secrets :
          Key(sec) = config.defaultTLSSecret /\ c.Key.Path = KeyPath(sec)
  \/ \E ing \in mirror.ings :
       /\ InScope(ing)
       /\ \E i \in 1..Len(ing.TLS) : \E sec \in mirror.secrets :
            /\ Key(sec) = ing.Namespace \o <<47>> \o ing.TLS[i]
            /\ c.Key.Path = KeyPath(sec)

\* C12: a rule passes the class filter iff its class annotation is unset,
\* empty or the configured class, and every Upstream and every TLSCred of an
\* emitted model comes from a rule that passes it (or from the configured
\* default service or default TLS secret).
C12_ClassFilter ==
  /\ \A ing \in mirror.ings : validateIngressClass(ing) <=> InScope(ing)
  /\ Emitted =>
       /\ \A i \in 1..Len(ingConfig.Upstreams) : FromInScope(ingConfig.Upstreams[i])
       /\ \A i \in 1..Len(AllCreds) : CredFromInScope(AllCreds[i])

\* A rule of another class, with a usable Secret and a service with live
\* endpoints, is in the mirror, and the model has neither its Upstream nor
\* its credential.
C12_Witness ==
  /\ Emitted
  /\ \E ing \in mirror.ings :
       /\ ~InScope(ing)
       /\ ~NamesBrokenSecret(ing)
       /\ Len(ing.TLS) > 0
       /\ Resolvable(ing) # <<>>
  /\ Len(ingConfig.Upstreams) = 1
  /\ ingConfig.Upstreams[1].Name = config.defaultSvc
  /\ AllCreds = <<>>

\* the paths of in-scope rules with usable Secrets that resolve to a backend
ResolvedPaths ==
  {t \in mirror.ings \X (1..4) : Healthy(t[1]) /\ t[2] <= Len(Resolvable(t[1]))}

\* C13 as claimed: no two Upstreams of an emitted model share a name.
C13_NoDuplicateNames ==
  Emitted =>
    \A i, j \in 1..Len(ingConfig.Upstreams) :
      i # j => ingConfig.Upstreams[i].Name # ingConfig.Upstreams[j].Name

\* C13 as amended: the Upstream list of an emitted model is in ascending
\* name order and holds one Upstream for each path of an in-scope rule that
\* resolves to a backend, plus the synthesized default when no such path is
\* the catch-all; equal names are kept, next to each other.
C13_SortedOnePerPath ==
  Emitted =>
    /\ \A i \in 1..(Len(ingConfig.Upstreams) - 1) :
         ~StrLess(ingConfig.Upstreams[i + 1].Name, ingConfig.Upstreams[i].Name)
    /\ Len(ingConfig.Upstreams)
         = Cardinality(ResolvedPaths) + (IF DeclaredDefaults = {} THEN 1 ELSE 0)

\* Two in-scope rules declare the same host, path, service and port: the
\* model holds two Upstreams of that name.
C13_Witness ==
  /\ Emitted
  /\ \E i \in 1..(Len(ingConfig.Upstreams) - 1) :
       ingConfig.Upstreams[i].Name = ingConfig.Upstreams[i + 1].Name
  /\ \E a, b \in mirror.ings :
       a # b /\ Healthy(a) /\ Healthy(b) /\ a.Rules = b.Rules /\ a.Namespace = b.Namespace

\* no in-scope rule has a path "/" (or "") under the empty host
NoRuleDefinesDefault ==
  ~\E ing \in mirror.ings :
     /\ InScope(ing)
     /\ \E r \in 1..Len(ing.Rules) :
          /\ ing.Rules[r].HTTP
          /\ ing.Rules[r].Host = <<>>
          /\ \E q \in 1..Len(ing.Rules[r].Paths) : ing.Rules[r].Paths[q].Path \in {<<>>, <<47>>}

\* the (address, port) pairs one endpoint subset offers for the first port of
\* the service: every address, for each TCP port that is its target
SubsetLive(svc, ss) ==
  UNION { {<<ss.Addresses[a], Itoa(ss.Ports[j].Port)>> : a \in 1..Len(ss.Addresses)} :
            j \in {k \in 1..Len(ss.Ports) :
                     /\ ss.Ports[k].Protocol = "TCP"
                     /\ TargetPortOf(listed.pods, svc, svc.Ports[1], ss.Ports[k]) # 0} }

\* the live endpoints of the configured default service; empty when the
\* service or its Endpoints are missing
DefaultLive ==
  UNION { UNION {SubsetLive(x[1], x[2].Subsets[i]) : i \in 1..Len(x[2].Subsets)} :
            x \in {y \in mirror.svcs \X mirror.eps :
                     Key(y[1]) = config.defaultSvc /\ Key(y[2]) = config.defaultSvc} }

\* C14: when no in-scope rule defines "/" for the empty host, the emitted
\* model holds the synthesized default Upstream, named after the configured
\* default service; its backends are that service's live endpoints, or the
\* one static placeholder server alone when there are none.
C14_SynthesizedDefault ==
  (Emitted /\ NoRuleDefinesDefault) =>
    \E i \in 1..Len(ingConfig.Upstreams) :
      LET u == ingConfig.Upstreams[i]
      IN  /\ u.Name = config.defaultSvc
          /\ u.Host = <<>>
          /\ IF DefaultLive = {} THEN u.Backends = <<NewDefaultServer>>
             ELSE {<<u.Backends[k].Address, u.Backends[k].Port>> : k \in 1..Len(u.Backends)}
                    = DefaultLive

\* An in-scope rule routes host "h" only; the default service has live
\* endpoints and the synthesized default carries them.
C14_Witness ==
  /\ Emitted
  /\ NoRuleDefinesDefault
  /\ \E ing \in mirror.ings : Healthy(ing) /\ Resolvable(ing) # <<>>
  /\ DefaultLive # {}
  /\ \E i \in 1..Len(ingConfig.Upstreams) :
       /\ ingConfig.Upstreams[i].Name = config.defaultSvc
       /\ ingConfig.Upstreams[i].Backends # <<NewDefaultServer>>

\* the rule names a Secret whose certificate does not validate
CertInvalid(ing) ==
  \E i \in 1..Len(ing.TLS) : \E sec \in mirror.secrets :
     Key(sec) = ing.Namespace \o <<47>> \o ing.TLS[i] /\ sec.Cert = "bad"

\* the in-scope rules that name such a Secret
BrokenRules == {ing \in mirror.ings : InScope(ing) /\ CertInvalid(ing)}

\* the model the same pass returns for the listed rules without those rules
ModelWithoutBroken ==
  getUpstreamServers(SelectSeq(listed.ings, LAMBDA ing : ing \notin BrokenRules), listed.pods)

-----------------------------------------------------------------------------
(* The rule with the paths "/" and "/api" (SpecScenario) *)

\* the mirror holds one rule, in scope, whose paths "/" and "/api" both
\* point at services with live endpoints
TwoLivePaths ==
  \E ing \in mirror.ings :
     /\ mirror.ings = {ing}
     /\ InScope(ing)
     /\ Len(ing.Rules) = 1
     /\ Len(ing.Rules[1].Paths) = 2
     /\ ing.Rules[1].Paths[1].Path = <<47>>
     /\ ing.Rules[1].Paths[2].Path = <<47, 97, 112, 105>>
     /\ \A q \in 1..2 : PathBackends(listed.pods, ing, ing.Rules[1].Paths[q]) # <<>>

\* the emitted model holds exactly two Upstreams, in name order, each with a
\* backend, and none is the synthesized default
TwoUpstreamsNoDefault ==
  /\ Len(ingConfig.Upstreams) = 2
  /\ StrLess(ingConfig.Upstreams[1].Name, ingConfig.Upstreams[2].Name)
  /\ \A i \in 1..2 :
       /\ ingConfig.Upstreams[i].Backends # <<>>
       /\ ingConfig.Upstreams[i].Name # config.defaultSvc

\* C15 as claimed: for a single in-scope rule with live paths "/" and "/api",
\* whatever its host, the emitted model holds exactly two Upstreams, in name
\* order, each with a backend, and no synthesized default.
C15_TwoUpstreams == (Emitted /\ TwoLivePaths) => TwoUpstreamsNoDefault

\* C15 as amended: that holds when the rule is for the empty host; when it
\* names a host, the model holds a third Upstream, the synthesized default.
C15_TwoUpstreamsEmptyHost ==
  (Emitted /\ TwoLivePaths) =>
    IF \A ing \in mirror.ings : ing.Rules[1].Host = <<>>
    THEN TwoUpstreamsNoDefault
    ELSE /\ Len(ingConfig.Upstreams) = 3
         /\ \E i \in 1..3 : ingConfig.Upstreams[i].Name = config.defaultSvc

\* The rule is for the empty host, both services have live endpoints and the
\* model holds the two Upstreams.
C15_Witness ==
  /\ Emitted
  /\ TwoLivePaths
  /\ \A ing \in mirror.ings : ing.Rules[1].Host = <<>>
  /\ TwoUpstreamsNoDefault

\* the service "t", whose port has the named target port "w", is in the mirror
NamedService == {svc \in mirror.svcs : svc.Name = <<116>>}

\* the numbers of the container ports of that name on the Pods the service
\* selects
NamedPortNumbers ==
  {p.Ports[i].ContainerPort :
     <<svc, p, i>> \in {x \in NamedService \X mirror.pods \X (1..1) :
                         /\ x[2].Namespace = x[1].Namespace
                         /\ x[1].Selector \subseteq x[2].Labels
                         /\ x[2].Ports[x[3]].Name = x[1].Ports[1].TargetPort.StrVal
                         /\ x[2].Ports[x[3]].Protocol = x[1].Ports[1].Protocol}}

\* one (address, port) pair per address of every subset of the service's
\* Endpoints that has a TCP port with the number n
SubsetsWithPort(n) ==
  UNION { UNION { {<<x[2].Subsets[i].Addresses[a], Itoa(n)>> :
                     a \in 1..Len(x[2].Subsets[i].Addresses)} :
                  i \in {k \in 1..Len(x[2].Subsets) :
                           \E j \in 1..Len(x[2].Subsets[k].Ports) :
                              /\ x[2].Subsets[k].Ports[j].Protocol = "TCP"
                              /\ x[2].Subsets[k].Ports[j].Port = n} } :
          x \in {y \in NamedService \X mirror.eps : Key(y[1]) = Key(y[2])} }

\* the backends the model holds for the path "/api", as (address, port) pairs
ApiBackends ==
  UNION { {<<ingConfig.Upstreams[i].Backends[k].Address, ingConfig.Upstreams[i].Backends[k].Port>> :
             k \in 1..Len(ingConfig.Upstreams[i].Backends)} :
          i \in {j \in 1..Len(ingConfig.Upstreams) :
                   ingConfig.Upstreams[j].Path = <<47, 97, 112, 105>>} }

\* C17: a named target port is resolved to the number of the container port
\* of that name on a Pod the service selects, and the path gets one backend
\* per address of every endpoint subset with a TCP port of that number; when
\* no Pod is selected or none has a container port of that name, the port
\* yields no backend.
C17_NamedPortResolved ==
  (Emitted /\ NamedService # {} /\ \A ing \in mirror.ings : InScope(ing)) =>
    IF NamedPortNumbers = {} THEN ApiBackends = {}
    ELSE \E n \in NamedPortNumbers : ApiBackends = SubsetsWithPort(n)

-----------------------------------------------------------------------------
(* Shutdown (Spec) *)

\* C19: when Stop closed the stop channel of a running controller (Run was
\* waiting on it) and the process has exited, the de-registration pass of
\* the status loop has been made.
C19_DeregisterBeforeExit ==
  (rpc = "exited" /\ stopAt = "waitStop") => spc = "returned"

\* C20: Stop is idempotent.  The stop channel is closed at most once, by the
\* first call; once the controller is shut down, no step of any later call,
\* from either caller, changes the shutdown flag or the channel or closes it
\* again.
C20_StopIdempotent ==
  [][ /\ closes' <= 1
      /\ (closes' = 1) <=> (shutdown' /\ stopCh' = "closed")
      /\ shutdown => UNCHANGED <<shutdown, stopCh, closes, stopAt>> ]_vars

\* Both callers have called Stop on the running controller, three calls in
\* all have returned, and the channel was closed once.
C20_Witness ==
  /\ stopAt = "waitStop"
  /\ stopCalls = 3
  /\ stopPos["sigterm"] = "done"
  /\ stopPos["http"] = "idle"
  /\ stopLock = "free"
  /\ closes = 1
  /\ stopCh = "closed"

-----------------------------------------------------------------------------
(* Node addresses: getPodAddress and getLoadBalancerIngress.  The node       *)
(* lister maps the name of a Node to its Status.Addresses; a controller Pod  *)
(* runs on the Node of its own name.                                         *)

\* the elements of a slice
SeqRange(seq) == {seq[i] : i \in 1..Len(seq)}

\* a fallback test that does not look at the option
FallbackAlways(address) == address.Type \in {"InternalIP", "LegacyHostIP"}

\* (lbc.allowInternalIP && address.Type == api.NodeInternalIP) ||
\* address.Type == api.NodeLegacyHostIP
Fallback(address) ==
  \/ allowInternalIP /\ address.Type = "InternalIP"
  \/ address.Type = "LegacyHostIP"

RECURSIVE ScanAddressesFirstUsable(_, _, _)
\* a scan that returns the first address it can use, of whatever type
ScanAddressesFirstUsable(addresses, i, externalIP) ==
  IF i > Len(addresses) THEN externalIP
  ELSE IF /\ addresses[i].Address # <<>>
          /\ addresses[i].Type = "ExternalIP" \/ Fallback(addresses[i])
       THEN addresses[i].Address
       ELSE ScanAddressesFirstUsable(addresses, i + 1, externalIP)

RECURSIVE ScanAddresses(_, _, _)
\* getPodAddress: the loop over node.Status.Addresses from index i on, with
\* externalIP as found so far.  A non-empty ExternalIP address ends the
\* loop; a fallback address is kept when nothing was found before it, and
\* the loop goes on.
ScanAddresses(addresses, i, externalIP) ==
  IF i > Len(addresses) THEN externalIP
  ELSE IF addresses[i].Type = "ExternalIP"
       THEN IF addresses[i].Address = <<>>
            THEN ScanAddresses(addresses, i + 1, externalIP)
            ELSE addresses[i].Address
       ELSE IF externalIP = <<>> /\ Fallback(addresses[i])
            THEN ScanAddresses(addresses, i + 1, addresses[i].Address)
            ELSE ScanAddresses(addresses, i + 1, externalIP)

\* getPodAddress(pod): an error when the Node is not in the lister or the
\* loop found no address
getPodAddress(pod) ==
  IF pod \notin DOMAIN nodeStore THEN [externalIP |-> <<>>, err |-> TRUE]
  ELSE [externalIP |-> ScanAddresses(nodeStore[pod], 1, <<>>),
        err |-> ScanAddresses(nodeStore[pod], 1, <<>>) = <<>>]

RECURSIVE getLoadBalancerIngress(_)
\* getLoadBalancerIngress: the addresses of the listed Pods, in the order
\* listed; a Pod whose address cannot be found is logged and skipped
getLoadBalancerIngress(pods) ==
  IF pods = <<>> THEN <<>>
  ELSE IF getPodAddress(Head(pods)).err THEN getLoadBalancerIngress(Tail(pods))
  ELSE <<getPodAddress(Head(pods)).externalIP>> \o getLoadBalancerIngress(Tail(pods))

-----------------------------------------------------------------------------
(* The status loops of three controller replicas on one in-scope rule        *)
(* (SpecStatus).  Replica "a" is this controller, which is told to stop;     *)
(* "b" and "c" are the other replicas, running the same syncIngress.  Every  *)
(* replica reads the rule and the Pods from its own listers, which follow    *)
(* the API server through watch events, and writes through UpdateStatus,     *)
(* which the API server refuses for a stale resourceVersion.                 *)

Replicas == {"a", "b", "c"}

\* the Node of each replica's Pod: an internal address and the external
\* address "1", "2" or "3"
ReplicaNodes ==
  [r \in Replicas |->
     << [Type |-> "InternalIP", Address |-> <<57>>],
        [Type |-> "ExternalIP",
         Address |-> IF r = "a" THEN <<49>> ELSE IF r = "b" THEN <<50>> ELSE <<51>>] >>]

\* the address getPodAddress returns for the replica's Pod
AddressOf(r) == getPodAddress(r).externalIP

\* sortLoadBalancerIngress and uniqLoadBalancerIngress: the addresses in
\* ascending order, each once
uniqLoadBalancerIngress(addrs) ==
  CHOOSE seq \in [1..Cardinality(addrs) -> addrs] :
    \A i, j \in 1..Cardinality(addrs) : i < j => StrLess(seq[i], seq[j])

\* getNodeIPAndUpdateIngress: getLoadBalancerIngress(selector) on the Pods the
\* replica's Pod lister holds under the controller's labels, sorted and
\* deduplicated
LbIngsOf(r) ==
  uniqLoadBalancerIngress(
    SeqRange(getLoadBalancerIngress(CHOOSE pods \in Orders(podCache[r]) : TRUE)))

\* loadBalancerIngressesIPEqual
loadBalancerIngressesIPEqual(x, y) == x = y

\* removeAddressFromLoadBalancerIngress(ings, addr): the list without addr
removeAddress(lbIngs, addr) == SelectSeq(lbIngs, LAMBDA x : x # addr)

\* wait.Poll(250*time.Millisecond, 2*time.Second, ...): the condition is
\* tried every 250ms for 2s
PollTries == 8

MaxTicks == 2

InitStatus ==
  /\ InitController
  /\ InitResolverIdle
  /\ InitTickIdle
  /\ InitEventIdle
  /\ InitMapIdle
  /\ nodeStore = ReplicaNodes
  /\ allowInternalIP = FALSE
  /\ lbResult = NoResult
  /\ apiIng = [status |-> uniqLoadBalancerIngress({AddressOf(q) : q \in Replicas}),
               version |-> 1]
  /\ ingCache = [r \in Replicas |->
                   [status |-> uniqLoadBalancerIngress({AddressOf(q) : q \in Replicas}),
                    version |-> 1]]
  /\ podCache = [r \in Replicas |-> Replicas]
  /\ stPos = [r \in Replicas |-> "select"]
  /\ ticks = [r \in Replicas |-> 0]
  /\ got = [status |-> <<>>, version |-> 0]
  /\ polls = 0

\* clientset UpdateStatus(ing): accepted when ing carries the current
\* resourceVersion, refused with a conflict otherwise
UpdateStatus(ing) ==
  IF ing.version = apiIng.version
  THEN [status |-> ing.status, version |-> apiIng.version + 1]
  ELSE apiIng

\* syncIngress of replica r: one getNodeIPAndUpdateIngress pass.  The rule
\* is written when the replica's own Pod is listed, its stop channel is open
\* and the listed rule's status differs from the addresses found.
getNodeIPAndUpdateIngress(r) ==
  /\ stPos[r] = "tick"
  /\ apiIng' = IF /\ r \in podCache[r]
                  /\ ~(r = "a" /\ stopCh = "closed")
                  /\ ~loadBalancerIngressesIPEqual(ingCache[r].status, LbIngsOf(r))
               THEN UpdateStatus([ingCache[r] EXCEPT !.status = LbIngsOf(r)])
               ELSE apiIng
  /\ stPos' = [stPos EXCEPT ![r] = "select"]
  /\ UNCHANGED <<ingCache, podCache, ticks, got, polls, ctlVars, resVars, auxVars>>

\* syncIngress of replica r: the select takes the timer case
StatusAfter(r) ==
  /\ stPos[r] = "select"
  /\ ticks[r] < MaxTicks
  /\ ticks' = [ticks EXCEPT ![r] = @ + 1]
  /\ stPos' = [stPos EXCEPT ![r] = "tick"]
  /\ UNCHANGED <<apiIng, ingCache, podCache, got, polls, ctlVars, resVars, auxVars>>

\* Stop() of this controller, as one step
StopCall ==
  /\ ~shutdown
  /\ shutdown' = TRUE
  /\ stopCh' = "closed"
  /\ UNCHANGED <<syncQueue, tokens, synced, ready, rpc, wpc, wkey, retry, syncResult, spc,
                 syncRunning, enqSinceGet, passes, tokensGranted, listCalls, reloadCalls,
                 quitGets, batch, stopVars, resVars, statVars, auxVars>>

\* syncIngress of this controller: the select takes the stopCh case and
\* removeAddressFromLoadBalancerIngress starts on the rule
StatusStopCase ==
  /\ stPos["a"] = "select"
  /\ stopCh = "closed"
  /\ stPos' = [stPos EXCEPT !["a"] = IF "a" \in podCache["a"] THEN "get" ELSE "returned"]
  /\ polls' = 0
  /\ UNCHANGED <<apiIng, ingCache, podCache, ticks, got, ctlVars, resVars, auxVars>>

\* the condition of wait.Poll, first half: Get the rule from the API server
\* and remove this address; nothing to write when the status is empty or
\* does not hold the address
RemoveGet ==
  /\ stPos["a"] = "get"
  /\ got' = [apiIng EXCEPT !.status = removeAddress(@, AddressOf("a"))]
  /\ polls' = polls + 1
  /\ stPos' = [stPos EXCEPT !["a"] =
                 IF Len(apiIng.status) = 0
                    \/ Len(removeAddress(apiIng.status, AddressOf("a"))) = Len(apiIng.status)
                 THEN "returned" ELSE "update"]
  /\ UNCHANGED <<apiIng, ingCache, podCache, ticks, ctlVars, resVars, auxVars>>

\* the condition of wait.Poll, second half: UpdateStatus; on an error the
\* condition is tried again until the poll times out
RemoveUpdate ==
  /\ stPos["a"] = "update"
  /\ apiIng' = UpdateStatus(got)
  /\ stPos' = [stPos EXCEPT !["a"] =
                 IF got.version = apiIng.version \/ polls >= PollTries
                 THEN "returned" ELSE "get"]
  /\ UNCHANGED <<ingCache, podCache, ticks, got, polls, ctlVars, resVars, auxVars>>

\* a watch event brings the rule of replica r's lister up to date
IngressWatch(r) ==
  /\ ingCache[r] # apiIng
  /\ ingCache' = [ingCache EXCEPT ![r] = apiIng]
  /\ UNCHANGED <<apiIng, podCache, stPos, ticks, got, polls, ctlVars, resVars, auxVars>>

\* this controller's Pod is deleted once it has shut down, and a watch event
\* removes it from the Pod lister of replica r
PodWatch(r) ==
  /\ r # "a"
  /\ stPos["a"] = "returned"
  /\ "a" \in podCache[r]
  /\ podCache' = [podCache EXCEPT ![r] = @ \ {"a"}]
  /\ UNCHANGED <<apiIng, ingCache, stPos, ticks, got, polls, ctlVars, resVars, auxVars>>

NextStatus ==
  \/ \E r \in Replicas : getNodeIPAndUpdateIngress(r)
  \/ \E r \in Replicas : StatusAfter(r)
  \/ StopCall
  \/ StatusStopCase
  \/ RemoveGet
  \/ RemoveUpdate
  \/ \E r \in Replicas : IngressWatch(r)
  \/ \E r \in Replicas : PodWatch(r)

SpecStatus == InitStatus /\ [][NextStatus]_vars

\* C18: with the three replicas' addresses registered on the rule, once this
\* replica's de-registration pass has completed, the rule's status holds
\* exactly the addresses of the other two replicas, whatever the other
\* replicas' status loops do.
C18_OthersRemain ==
  stPos["a"] = "returned" => apiIng.status = <<AddressOf("b"), AddressOf("c")>>

-----------------------------------------------------------------------------
(* The status ticks of one replica over several rules (SpecTick): the       *)
(* replica's addresses are fixed, the lister holds up to MaxRules rules of  *)
(* the configured class or of another, each with the addresses already in   *)
(* its status or with none, and UpdateStatus may fail.                      *)

MaxRules == 2

\* the sorted, deduplicated addresses getNodeIPAndUpdateIngress hands to
\* updateIngressStatus: the address "1"
TickLbIngs == << <<49>> >>

TickRule(class, status) == [Class |-> class, status |-> status, api |-> status]

TickRules == { TickRule(class, status) : class \in {"nghttpx", "other"},
                                         status \in {<<>>, TickLbIngs} }

\* what a tick has done: the rules it called UpdateStatus for, the ones for
\* which the call failed, whether the listing failed, whether the tick saw
\* the stop channel closed
NewTick == [tried |-> {}, failed |-> {}, listErr |-> FALSE, stopped |-> FALSE]

\* this replica's address, which the de-registration pass removes: "1"
ThisAddress == TickLbIngs[1]

\* what the de-registration pass has done: whether it has started, whether
\* it returned an error before its loop, the calls of wait.Poll's condition
\* per rule, the rules it called UpdateStatus for, and how it left each rule
NewPass == [started |-> FALSE, err |-> FALSE, tries |-> [i \in 1..Len(tickIngs) |-> 0], updates |-> {},
            ended |-> [i \in 1..Len(tickIngs) |-> "none"]]

InitTick ==
  /\ InitController
  /\ InitStatusIdle
  /\ InitAddrIdle
  /\ InitEventIdle
  /\ InitMapIdle
  /\ config \in Configs
  /\ mirror = NoMirror
  /\ listed = NoMirror
  /\ ingConfig = "none"
  /\ prevConfig = "none"
  /\ runs = 0
  /\ sinkConfig = "none"
  /\ tickIngs \in UNION { [1..n -> TickRules] : n \in 0..MaxRules }
  /\ tickPos = "tick"
  /\ tickIdx = 0
  /\ tickCur = NewTick
  /\ tickLog = <<>>
  /\ rmPass = NewPass

\* the tick is over: syncIngress logs an error, if any, and goes to its select
TickFinish(cur) ==
  /\ tickLog' = Append(tickLog, cur)
  /\ tickCur' = cur
  /\ tickPos' = "select"
  /\ tickIdx' = 0

\* getNodeIPAndUpdateIngress up to the listing of updateIngressStatus: an
\* error of the listing is returned; the loop starts otherwise
TickList ==
  /\ tickPos = "tick"
  /\ Len(tickLog) < MaxTicks
  /\ \E ok \in BOOLEAN :
       IF ~ok THEN TickFinish([NewTick EXCEPT !.listErr = TRUE])
       ELSE IF Len(tickIngs) = 0 THEN TickFinish(NewTick)
       ELSE /\ tickPos' = "loop"
            /\ tickIdx' = 1
            /\ tickCur' = NewTick
            /\ UNCHANGED tickLog
  /\ UNCHANGED <<tickIngs, ctlVars, resVars, statVars, addrVars, event, mapVars, rmPass>>

\* a loop that a failed UpdateStatus would leave
LoopEndsOnError(i, ok) == ~ok \/ i = Len(tickIngs)

\* for _, ing := range ings: the loop ends after the last rule, whatever
\* UpdateStatus returned
LoopEnds(i, ok) == i = Len(tickIngs)

\* the end of one iteration
TickContinue(i, ok, cur) ==
  IF LoopEnds(i, ok) THEN TickFinish(cur)
  ELSE /\ tickIdx' = i + 1
       /\ tickCur' = cur
       /\ UNCHANGED <<tickPos, tickLog>>

\* updateIngressStatus: one iteration of the loop over the listed rules
TickIteration ==
  /\ tickPos = "loop"
  /\ LET i == tickIdx
         ing == tickIngs[i]
     IN  IF stopCh = "closed"
         THEN TickFinish([tickCur EXCEPT !.stopped = TRUE]) /\ UNCHANGED tickIngs
         ELSE IF ~validateIngressClass(ing) \/ loadBalancerIngressesIPEqual(ing.status, TickLbIngs)
         THEN TickContinue(i, TRUE, tickCur) /\ UNCHANGED tickIngs
         ELSE \E ok \in BOOLEAN :
                /\ tickIngs' = IF ok THEN [tickIngs EXCEPT ![i].api = TickLbIngs] ELSE tickIngs
                /\ TickContinue(i, ok,
                     [tickCur EXCEPT !.tried = @ \cup {i},
                                     !.failed = IF ok THEN @ ELSE @ \cup {i}])
  /\ UNCHANGED <<ctlVars, resVars, statVars, addrVars, event, mapVars, rmPass>>

\* syncIngress: the select takes the timer case
TickAfter ==
  /\ tickPos = "select"
  /\ tickPos' = "tick"
  /\ UNCHANGED <<tickIngs, tickIdx, tickCur, tickLog, ctlVars, resVars, statVars, addrVars, event, mapVars, rmPass>>

\* a stop case after which the status loop goes on
AfterRemoveNoReturn == "tick"

\* syncIngress: the return that follows removeAddressFromLoadBalancerIngress
AfterRemove == "returned"

\* syncIngress: the select takes the stopCh case and
\* removeAddressFromLoadBalancerIngress starts: an error of getThisPod,
\* getPodAddress or the listing is returned, the loop starts otherwise
TickStopCase ==
  /\ tickPos = "select"
  /\ stopCh = "closed"
  /\ \E ok \in BOOLEAN :
       IF ~ok \/ Len(tickIngs) = 0
       THEN /\ tickPos' = AfterRemove
            /\ tickIdx' = 0
            /\ rmPass' = [rmPass EXCEPT !.started = TRUE, !.err = ~ok]
       ELSE /\ tickPos' = "remove"
            /\ tickIdx' = 1
            /\ rmPass' = [rmPass EXCEPT !.started = TRUE]
  /\ UNCHANGED <<tickIngs, tickCur, tickLog, ctlVars, resVars, statVars, addrVars, event, mapVars>>

\* the loop of the pass goes on to the rule after i, and the pass returns
\* after the last one
PassOn(i) ==
  IF i = Len(tickIngs) THEN tickPos' = AfterRemove /\ tickIdx' = 0
  ELSE tickIdx' = i + 1 /\ UNCHANGED tickPos

\* a pass that returns the error of wait.Poll
PollFailedReturns(i) == tickPos' = AfterRemove /\ tickIdx' = 0

\* wait.Poll returned an error (the rule was not found, or the poll timed
\* out): it is logged and the loop goes on
PollFailed(i) == PassOn(i)

\* the pass skips a rule that fails the class filter
RemoveSkip ==
  /\ tickPos = "remove"
  /\ ~validateIngressClass(tickIngs[tickIdx])
  /\ PassOn(tickIdx)
  /\ rmPass' = [rmPass EXCEPT !.ended[tickIdx] = "skipped"]
  /\ UNCHANGED <<tickIngs, tickCur, tickLog, ctlVars, resVars, statVars, addrVars, event, mapVars>>

\* the poll is over after the n-th call of its condition returned false,
\* nil: its two seconds have passed, after PollTries calls at the latest and
\* earlier when the calls were slow (late)
TimedOut(n, late) == late \/ n >= PollTries

\* the condition returned false, nil at its n-th call: wait.Poll calls it
\* again, or times out
PollAgain(i, n, late) ==
  IF TimedOut(n, late) THEN PollFailed(i) ELSE UNCHANGED <<tickPos, tickIdx>>

\* one call of the condition of wait.Poll for an in-scope rule: Get reports
\* that the rule is not found (the poll ends with the error), fails otherwise
\* (tried again), or returns the rule; then nothing is written when the
\* status is empty or does not hold this address, and otherwise UpdateStatus
\* is called with the address removed, and tried again when it fails
RemovePoll ==
  /\ tickPos = "remove"
  /\ validateIngressClass(tickIngs[tickIdx])
  /\ LET i == tickIdx
         n == rmPass.tries[i] + 1
         status == tickIngs[i].api
         removed == removeAddress(status, ThisAddress)
     IN  \E get \in {"notFound", "error", "ok"} :
           IF get = "notFound"
           THEN /\ PollFailed(i)
                /\ rmPass' = [rmPass EXCEPT !.tries[i] = n, !.ended[i] = "notFound"]
                /\ UNCHANGED tickIngs
           ELSE IF get = "error"
           THEN \E late \in BOOLEAN :
                  /\ PollAgain(i, n, late)
                  /\ rmPass' = [rmPass EXCEPT !.tries[i] = n,
                                  !.ended[i] = IF TimedOut(n, late) THEN "timeout" ELSE @]
                  /\ UNCHANGED tickIngs
           ELSE IF Len(status) = 0 \/ Len(removed) = Len(status)
           THEN /\ PassOn(i)
                /\ rmPass' = [rmPass EXCEPT !.tries[i] = n, !.ended[i] = "done"]
                /\ UNCHANGED tickIngs
           ELSE \E ok \in BOOLEAN :
                  IF ok
                  THEN /\ tickIngs' = [tickIngs EXCEPT ![i].api = removed]
                       /\ PassOn(i)
                       /\ rmPass' = [rmPass EXCEPT !.tries[i] = n, !.updates = @ \cup {i},
                                                   !.ended[i] = "done"]
                  ELSE \E late \in BOOLEAN :
                         /\ PollAgain(i, n, late)
                         /\ rmPass' = [rmPass EXCEPT !.tries[i] = n, !.updates = @ \cup {i},
                                         !.ended[i] = IF TimedOut(n, late) THEN "timeout" ELSE @]
                         /\ UNCHANGED tickIngs
  /\ UNCHANGED <<tickCur, tickLog, ctlVars, resVars, statVars, addrVars, event, mapVars>>

\* a watch event brings rule i of the lister up to date
TickWatch(i) ==
  /\ tickIngs[i].status # tickIngs[i].api
  /\ tickIngs' = [tickIngs EXCEPT ![i].status = tickIngs[i].api]
  /\ UNCHANGED <<tickPos, tickIdx, tickCur, tickLog, ctlVars, resVars, statVars, addrVars, event, mapVars, rmPass>>

NextTick ==
  \/ TickList
  \/ TickIteration
  \/ TickAfter
  \/ TickStopCase
  \/ RemoveSkip
  \/ RemovePoll
  \/ StopCall
  \/ \E i \in 1..MaxRules + 1 : i <= Len(tickIngs) /\ TickWatch(i)

SpecTick == InitTick /\ [][NextTick]_vars

\* the status loop of a controller without a default TLS secret, which the
\* status loop does not read
InitTickLive == InitTick /\ config.defaultTLSSecret = <<>>

\* the status loop with a de-registration pass that is not held up: every
\* call the pass makes to the API returns, with a result or with an error
SpecTickLive ==
  InitTickLive /\ [][NextTick]_vars /\ WF_vars(RemoveSkip) /\ WF_vars(RemovePoll)

\* the rule still needs a patch: it is in scope and its status in the lister
\* differs from the replica's addresses
NeedsPatch(i) ==
  /\ validateIngressClass(tickIngs[i])
  /\ ~loadBalancerIngressesIPEqual(tickIngs[i].status, TickLbIngs)

\* a tick that went through its loop: the listing worked and the stop
\* channel stayed open
RanThrough(t) == ~t.listErr /\ ~t.stopped

\* the de-registration pass has called UpdateStatus for the rule
Deregistered(i) == i \in rmPass.updates

\* C21: a failed UpdateStatus for one in-scope rule does not abort the tick
\* (every in-scope rule whose status differs, and which the de-registration
\* pass has not touched since, is patched by every tick that runs through),
\* it does not end the status loop (syncIngress returns only when the stop
\* channel is closed), and a rule whose patch failed is patched again by the
\* next tick as long as its status still differs.
C21_FailedPatchNotFatal ==
  /\ \A k \in 1..Len(tickLog) : \A i \in 1..Len(tickIngs) :
       (RanThrough(tickLog[k]) /\ NeedsPatch(i) /\ ~Deregistered(i)) => i \in tickLog[k].tried
  /\ tickPos = "returned" => stopCh = "closed"

\* the first rule's patch failed in the first tick, in which the second rule
\* was patched all the same, and the second tick patched the first rule again
C21_Witness ==
  /\ Len(tickLog) = 2
  /\ Len(tickIngs) = 2
  /\ tickLog[1].failed = {1}
  /\ tickLog[1].tried = {1, 2}
  /\ 1 \in tickLog[2].tried
  /\ tickPos = "select"

\* the rule names a class, and it is not the configured one
OutOfScope(i) == tickIngs[i].Class \notin {"unset", "", config.ingressClass}

\* C36: neither a status tick nor the de-registration pass calls UpdateStatus
\* for a rule whose class annotation is set and differs from the configured
\* class, and the status of such a rule stays what it was.
C36_OutOfScopeStatusUntouched ==
  \A i \in 1..Len(tickIngs) :
    OutOfScope(i) =>
      /\ i \notin tickCur.tried
      /\ \A k \in 1..Len(tickLog) : i \notin tickLog[k].tried
      /\ i \notin rmPass.updates
      /\ tickIngs[i].api = tickIngs[i].status

\* a tick and the de-registration pass have run over a rule of another class
\* that holds this replica's address and over a rule in scope, which the
\* tick patched and the pass de-registered
C36_Witness ==
  /\ tickPos = "returned"
  /\ Len(tickLog) > 0
  /\ \E i, j \in 1..Len(tickIngs) :
       /\ OutOfScope(i)
       /\ tickIngs[i].api = TickLbIngs
       /\ rmPass.ended[i] = "skipped"
       /\ j \in tickLog[1].tried
       /\ j \in rmPass.updates
       /\ tickIngs[j].api = <<>>

\* the status list holds this replica's address
Advertises(lbIngs) == \E k \in 1..Len(lbIngs) : lbIngs[k] = ThisAddress

\* the step writes the status of rule i through the API
Writes(i) == tickIngs'[i].api # tickIngs[i].api

\* C37: status ticks and the de-registration pass of one replica never
\* overlap, and once the pass has started the replica writes no rule status
\* that holds its own address: from the start of the pass on, the status loop
\* is in the pass or has returned, and every status it writes is without the
\* address.
C37_NoAdvertiseAfterDeregistration ==
  [][rmPass'.started =>
       /\ tickPos' \in {"remove", "returned"}
       /\ \A i \in 1..Len(tickIngs) : Writes(i) => ~Advertises(tickIngs'[i].api)]_vars

\* two ticks have advertised the address on both rules, and the pass has
\* taken it off the first rule and is at the second
C37_Witness ==
  /\ Len(tickLog) = 2
  /\ tickLog[1].tried = {1, 2}
  /\ tickPos = "remove"
  /\ tickIdx = 2
  /\ rmPass.updates = {1}
  /\ ~Advertises(tickIngs[1].api)
  /\ Advertises(tickIngs[2].api)

\* the pass has gone through its loop
PassRanThrough == rmPass.started /\ ~rmPass.err /\ tickPos = "returned"

\* C38: the de-registration pass always terminates: the condition of the
\* poll is called at most PollTries times per rule, a pass that has started
\* returns, and a pass that got to its loop has made an attempt on every
\* in-scope rule, whatever became of the attempts on the other rules.
C38_PassTerminates ==
  /\ [](\A i \in 1..Len(tickIngs) : rmPass.tries[i] <= PollTries)
  /\ [](PassRanThrough =>
         \A i \in 1..Len(tickIngs) :
           validateIngressClass(tickIngs[i]) => rmPass.tries[i] >= 1 /\ rmPass.ended[i] # "none")
  /\ (rmPass.started ~> tickPos = "returned")

\* the pass has returned: its first rule was not found, all PollTries
\* attempts on the second failed
C38_Witness ==
  /\ PassRanThrough
  /\ Len(tickIngs) = 2
  /\ rmPass.ended = <<"notFound", "timeout">>
  /\ rmPass.tries = <<1, PollTries>>

-----------------------------------------------------------------------------
(* The catch-all Upstream of the emitted model (SpecResolver) *)

\* C40: every emitted model has an Upstream for the empty host and the path
\* "/" or "" whose backend list is not empty, also when the rules that
\* declare it have no live endpoints and when the default service or its
\* endpoints are missing.
C40_CatchAllHasBackends ==
  Emitted =>
    \E i \in UpstreamsAt({<<>>, <<47>>}) : Len(ingConfig.Upstreams[i].Backends) > 0

\* a rule in scope declares "/" for the empty host and none that does has a
\* live endpoint, the default service is not in the mirror, and the model's
\* catch-all is the default backend with the placeholder server
C40_Witness ==
  /\ Emitted
  /\ ~NoRuleDefinesDefault
  /\ DeclaredDefaults = {}
  /\ ~Exists(mirror.svcs, config.defaultSvc)
  /\ UpstreamsAt({<<47>>}) = {}
  /\ \E i \in UpstreamsAt({<<>>}) :
       /\ ingConfig.Upstreams[i].Name = config.defaultSvc
       /\ ingConfig.Upstreams[i].Backends = <<NewDefaultServer>>

-----------------------------------------------------------------------------
(* Passes between which the status of the mirrored rule is patched           *)
(* (SpecPatch): the mirrors of SpecScenario, whose rule carries a status,    *)
(* empty or with this replica's address; the status loop's UpdateStatus      *)
(* comes back through the informer and a pass follows.                       *)

\* the status lists a rule can carry
Statuses == {<<>>, TickLbIngs}

\* the rule with Status.LoadBalancer.Ingress set
WithStatus(ing, st) ==
  [f \in DOMAIN ing \cup {"Status"} |-> IF f = "Status" THEN st ELSE ing[f]]

\* the listed rules with the same status on each
AllWithStatus(ings, st) == [i \in 1..Len(ings) |-> WithStatus(ings[i], st)]

PatchMirrors ==
  { [m EXCEPT !.ings = {WithStatus(ing, st) : ing \in m.ings}] :
      m \in ScenarioMirrors, st \in Statuses }

InitPatch ==
  /\ InitController
  /\ config \in Configs
  /\ mirror \in PatchMirrors
  /\ listed = [ings |-> <<>>, pods |-> <<>>]
  /\ ingConfig = "none"
  /\ prevConfig = "none"
  /\ runs = 0
  /\ sinkConfig = "none"
  /\ InitStatusIdle
  /\ InitAuxIdle

\* the informer delivers a rule with the status that UpdateStatus wrote
\* (the address added by a tick, or removed by a de-registration pass);
\* updateIngressNotification enqueues the key, so that a pass follows
StatusPatch ==
  /\ \E ing \in mirror.ings : \E st \in Statuses :
       /\ st # ing.Status
       /\ mirror' = [mirror EXCEPT !.ings = (@ \ {ing}) \cup {WithStatus(ing, st)}]
  /\ UNCHANGED <<config, listed, ingConfig, prevConfig, runs, sinkConfig,
                 ctlVars, statVars, auxVars>>

NextPatch ==
  \/ ResolvePass
  \/ StatusPatch

SpecPatch == InitPatch /\ [][NextPatch]_vars

\* C39: the model does not depend on the status of any rule: whatever the
\* status of the listed rules, getUpstreamServers yields the model of the
\* pass, and a pass that follows a status patch, with the Pods listed in the
\* same order, yields the model of the pass before and leaves the sink's
\* model as it was.
C39_ModelIgnoresStatus ==
  [][runs' > runs =>
       /\ \A st \in Statuses :
            getUpstreamServers(AllWithStatus(listed'.ings, st), listed'.pods) = ingConfig'
       /\ (runs >= 1 /\ listed'.pods = listed.pods) =>
            ingConfig' = ingConfig /\ sinkConfig' = sinkConfig]_vars

\* the second pass listed the rule with another status than the first, and
\* handed the sink the same model, with an Upstream of the rule
C39_Witness ==
  /\ runs = 2
  /\ ingConfig = prevConfig
  /\ ~ingConfig.err
  /\ sinkConfig = ingConfig
  /\ listed.ings[1].Status = TickLbIngs
  /\ \E i \in 1..Len(ingConfig.Upstreams) : ingConfig.Upstreams[i].Path = <<47, 97, 112, 105>>

-----------------------------------------------------------------------------
(* getLoadBalancerIngress on two controller Pods (SpecAddress): Pod "b"     *)
(* runs on a Node with the external address "3"; the Node of Pod "a" is not *)
(* in the lister or has up to MaxAddrs addresses of any type, empty, "1"    *)
(* or "2".                                                                  *)

MaxAddrs == 2

NodeTypes == {"ExternalIP", "InternalIP", "LegacyHostIP", "Hostname"}

NodeAddresses == [Type : NodeTypes, Address : {<<>>, <<49>>, <<50>>}]

GoodNode == << [Type |-> "ExternalIP", Address |-> <<51>>] >>

NodeStores ==
  { [pod \in {"b"} |-> GoodNode] }
  \cup
  { [pod \in {"a", "b"} |-> IF pod = "a" THEN addresses ELSE GoodNode] :
      addresses \in UNION { [1..n -> NodeAddresses] : n \in 0..MaxAddrs } }

InitAddress ==
  /\ InitController
  /\ InitResolverIdle
  /\ InitStatusIdle
  /\ InitTickIdle
  /\ InitEventIdle
  /\ InitMapIdle
  /\ nodeStore \in NodeStores
  /\ allowInternalIP \in BOOLEAN
  /\ lbResult = NoResult

\* getNodeIPAndUpdateIngress: lbIngs, err := lbc.getLoadBalancerIngress(selector),
\* with the Pods in the order the Pod lister returns them
LoadBalancerIngressCall ==
  /\ \E pods \in Orders({"a", "b"}) :
       lbResult' = [pods |-> pods, lbIngs |-> getLoadBalancerIngress(pods)]
  /\ UNCHANGED <<nodeStore, allowInternalIP, ctlVars, resVars, statVars, tickVars, event, mapVars>>

NextAddress == LoadBalancerIngressCall

SpecAddress == InitAddress /\ [][NextAddress]_vars

\* the Node has a non-empty address of type ExternalIP
HasExternal(addresses) ==
  \E i \in 1..Len(addresses) :
    addresses[i].Type = "ExternalIP" /\ addresses[i].Address # <<>>

\* the first of them
FirstExternal(addresses) ==
  addresses[CHOOSE i \in 1..Len(addresses) :
              /\ addresses[i].Type = "ExternalIP" /\ addresses[i].Address # <<>>
              /\ \A j \in 1..(i - 1) :
                   ~(addresses[j].Type = "ExternalIP" /\ addresses[j].Address # <<>>)].Address

\* the non-empty addresses that stand in for an external one: those of type
\* LegacyHostIP and, with the option, those of type InternalIP
StandIns(addresses) ==
  { i \in 1..Len(addresses) :
      /\ addresses[i].Address # <<>>
      /\ \/ addresses[i].Type = "LegacyHostIP"
         \/ addresses[i].Type = "InternalIP" /\ allowInternalIP }

\* getLoadBalancerIngress has been called
Called == lbResult.pods # <<>>

\* the listed Pods without Pod "a"
WithoutA(pods) == SelectSeq(pods, LAMBDA pod : pod # "a")

\* C22 (as stated): without a non-empty external-IP address, an address is
\* returned only when the allow-internal-IP option is configured; with the
\* option unset the Pod is unresolvable and the tick skips it.
C22_FallbackOnlyIfAllowed ==
  \A pod \in DOMAIN nodeStore :
    (Called /\ ~HasExternal(nodeStore[pod])) =>
      /\ ~getPodAddress(pod).err => allowInternalIP
      /\ ~allowInternalIP =>
           /\ getPodAddress(pod).err
           /\ lbResult.lbIngs = getLoadBalancerIngress(WithoutA(lbResult.pods))

\* C22 (amended): without a non-empty external-IP address, getPodAddress
\* returns the node's first non-empty address of type LegacyHostIP or, only
\* with the allow-internal-IP option, of type InternalIP; when there is
\* none the Pod is unresolvable and the tick skips it, keeping the other Pod.
C22_FallbackByType ==
  \A pod \in DOMAIN nodeStore :
    (Called /\ ~HasExternal(nodeStore[pod])) =>
      /\ getPodAddress(pod).err <=> StandIns(nodeStore[pod]) = {}
      /\ ~getPodAddress(pod).err =>
           \E i \in StandIns(nodeStore[pod]) :
             /\ getPodAddress(pod).externalIP = nodeStore[pod][i].Address
             /\ \A j \in StandIns(nodeStore[pod]) : i <= j
      /\ getPodAddress(pod).err =>
           lbResult.lbIngs = getLoadBalancerIngress(WithoutA(lbResult.pods))

\* the option is unset and the Node of Pod "a" has an internal address
\* before a legacy host address: the call returned the legacy host address
\* and the address of Pod "b"
C22_Witness ==
  /\ ~allowInternalIP
  /\ "a" \in DOMAIN nodeStore
  /\ nodeStore["a"] = << [Type |-> "InternalIP", Address |-> <<49>>],
                         [Type |-> "LegacyHostIP", Address |-> <<50>>] >>
  /\ lbResult.pods = <<"a", "b">>
  /\ lbResult.lbIngs = << <<50>>, <<51>> >>

\* C23: whenever the Node has a non-empty address of type ExternalIP,
\* getPodAddress returns the first such address, wherever it stands in the
\* list relative to internal or legacy host addresses, and the call lists it
\* for the Pod.
C23_ExternalPreferred ==
  /\ \A pod \in DOMAIN nodeStore :
       (Called /\ HasExternal(nodeStore[pod])) =>
         getPodAddress(pod) = [externalIP |-> FirstExternal(nodeStore[pod]), err |-> FALSE]
  /\ (/\ Called
      /\ \A k \in 1..Len(lbResult.pods) :
           /\ lbResult.pods[k] \in DOMAIN nodeStore
           /\ HasExternal(nodeStore[lbResult.pods[k]])) =>
       lbResult.lbIngs = [k \in 1..Len(lbResult.pods) |->
                            FirstExternal(nodeStore[lbResult.pods[k]])]

\* the Node of Pod "a" lists a legacy host address before its external
\* address, and the call returned the external one
C23_Witness ==
  /\ "a" \in DOMAIN nodeStore
  /\ nodeStore["a"] = << [Type |-> "LegacyHostIP", Address |-> <<49>>],
                         [Type |-> "ExternalIP", Address |-> <<50>>] >>
  /\ lbResult.pods = <<"a", "b">>
  /\ lbResult.lbIngs = << <<50>>, <<51>> >>

-----------------------------------------------------------------------------
(* The notification handlers of Endpoints, Secrets and Pods and their       *)
(* relevance tests (SpecNotify).  The mirror holds up to MaxIngs rules of   *)
(* namespace "n" and one rule of namespace "m" that targets service "x" and *)
(* names secret "e"; the services "s", "t" and "d" of namespace "n" exist   *)
(* or only "s" does.  Notifications come for objects of both namespaces.    *)

\* labels.Set(svc.Spec.Selector).AsSelector().Matches(labels.Set(pod.Labels))
\* with a selector that matches every Pod
SelectorMatchesAny(svc, pod) == TRUE

\* labels.Set(svc.Spec.Selector).AsSelector().Matches(labels.Set(pod.Labels)):
\* the Pod carries every label of the selector
SelectorMatches(svc, pod) == svc.Selector \subseteq pod.Labels

\* lbc.ingLister.Ingresses(namespace).List(labels.Everything())
IngressesOf(namespace) == {ing \in mirror.ings : ing.Namespace = namespace}

\* a listing error that counts as a reference
ListErrorReferenced == TRUE

\* ings, err := ...List(...); if err != nil { glog.Errorf(...); return false }
ListError == FALSE

\* the paths of the rules of ing that have an HTTP section
HTTPPaths(ing) ==
  UNION { SeqRange(ing.Rules[i].Paths) : i \in {j \in 1..Len(ing.Rules) : ing.Rules[j].HTTP} }

\* a comparison that every path passes
PathTargetsAny(path, ep) == TRUE

\* ep.Name == path.Backend.ServiceName
PathTargets(path, ep) == ep.Name = path.ServiceName

\* endpointsReferenced(ep); listOk is the outcome of the listing
endpointsReferenced(ep, listOk) ==
  IF Key(ep) = config.defaultSvc THEN TRUE
  ELSE IF ~listOk THEN ListError
  ELSE \E ing \in IngressesOf(ep.Namespace) :
         /\ validateIngressClass(ing)
         /\ \E path \in HTTPPaths(ing) : PathTargets(path, ep)

\* podReferenced(pod); listOk is the outcome of the listing
podReferenced(pod, listOk) ==
  IF /\ Exists(mirror.svcs, config.defaultSvc)
     /\ SelectorMatches(GetByKey(mirror.svcs, config.defaultSvc), pod)
  THEN TRUE
  ELSE IF ~listOk THEN ListError
  ELSE \E ing \in IngressesOf(pod.Namespace) :
         /\ validateIngressClass(ing)
         /\ \E path \in HTTPPaths(ing) :
              /\ Exists(mirror.svcs, pod.Namespace \o <<47>> \o path.ServiceName)
              /\ SelectorMatches(GetByKey(mirror.svcs,
                                          pod.Namespace \o <<47>> \o path.ServiceName), pod)

\* a comparison with the default TLS secret that never holds
IsDefaultTLSSecretNever(namespace, name) == FALSE

\* lbc.defaultTLSSecret == fmt.Sprintf("%v/%v", namespace, name)
IsDefaultTLSSecret(namespace, name) == config.defaultTLSSecret = namespace \o <<47>> \o name

\* secretReferenced(namespace, name); listOk is the outcome of the listing
secretReferenced(namespace, name, listOk) ==
  IF IsDefaultTLSSecret(namespace, name) THEN TRUE
  ELSE IF ~listOk THEN ListError
  ELSE \E ing \in IngressesOf(namespace) :
         /\ validateIngressClass(ing)
         /\ \E i \in 1..Len(ing.TLS) : ing.TLS[i] = name

\* the objects notifications come for: Endpoints and Secrets by namespace
\* and name, Pods by namespace and labels; Version tells the contents of an
\* object before a change from those after it
EndpointsObjects ==
  { [Namespace |-> ns, Name |-> name, Version |-> 1] :
      ns \in {<<110>>, <<109>>}, name \in {<<115>>, <<100>>, <<120>>} }

SecretObjects ==
  { [Namespace |-> ns, Name |-> name, Version |-> 1] :
      ns \in {<<110>>, <<109>>}, name \in {<<99>>, <<101>>} }

PodObjects ==
  { [Namespace |-> ns, Labels |-> ls] :
      ns \in {<<110>>, <<109>>}, ls \in { {}, {<<115>>}, {<<100>>, <<120>>} } }

\* the object after an update: changed, or the same (a resync)
Updated(old, changed) == IF changed THEN [old EXCEPT !.Version = 2] ELSE old

\* the rule of namespace "m"
OtherNamespaceIngress ==
  [Namespace |-> <<109>>, Name |-> <<105, 56>>, Class |-> "", TLS |-> << <<101>> >>,
   Rules |-> <<Rule(<<>>, <<Path(<<47>>, <<120>>, IntPort(80))>>)>>, BackendConfig |-> <<>>]

\* the rules of namespace "n" the handlers are applied to: of no class, of
\* the configured class, of another class, and one more that names secret "e"
NotifyPool ==
  {ing \in IngressPool : ing.Name \in {<<105, 49>>, <<105, 50>>, <<105, 52>>, <<105, 54>>}}

NotifyMirrors ==
  { [ings |-> is \cup {OtherNamespaceIngress}, svcs |-> svcs, eps |-> {}, pods |-> {},
     secrets |-> {}] :
      is \in {x \in SUBSET NotifyPool : Cardinality(x) <= MaxIngs},
      svcs \in { {Service(<<115>>, <<ServicePort(<<>>, 80, IntPort(8080))>>)},
                 {Service(<<115>>, <<ServicePort(<<>>, 80, IntPort(8080))>>),
                  Service(<<116>>, <<ServicePort(<<119>>, 80, StrPort(<<119>>))>>),
                  Service(<<100>>, <<ServicePort(<<>>, 80, IntPort(8080))>>)} } }

InitNotify ==
  /\ InitController
  /\ InitStatusIdle
  /\ InitTickIdle
  /\ InitAddrIdle
  /\ config \in Configs
  /\ mirror \in NotifyMirrors
  /\ listed = NoMirror
  /\ ingConfig = "none"
  /\ prevConfig = "none"
  /\ runs = 0
  /\ sinkConfig = "none"
  /\ event = [kind |-> "none"]
  /\ InitMapIdle

\* the body of a handler once its relevance test has returned: enqueue the
\* key or return; the event and the number of enqueues before it are kept
Handle(kind, obj, listOk, referenced) ==
  /\ enqSinceGet < MaxEnq
  /\ IF referenced THEN enqueue(syncKey) ELSE UNCHANGED <<syncQueue, enqSinceGet>>
  /\ event' = [kind |-> kind, obj |-> obj, listOk |-> listOk, before |-> enqSinceGet]
  /\ UNCHANGED <<tokens, shutdown, stopCh, synced, ready, rpc, wpc, wkey, retry, syncResult,
                 spc, syncRunning, passes, tokensGranted, listCalls, reloadCalls, quitGets,
                 batch, stopVars, resVars, statVars, tickVars, addrVars, mapVars>>

addEndpointsNotification ==
  \E ep \in EndpointsObjects, listOk \in BOOLEAN :
    Handle("endpoints", ep, listOk, endpointsReferenced(ep, listOk))

\* reflect.DeepEqual(old, cur) returns without a test; otherwise either
\* object being referenced enqueues
updateEndpointsNotification ==
  \E old \in EndpointsObjects, changed \in BOOLEAN, listOk \in BOOLEAN :
    Handle("endpoints update", [old |-> old, cur |-> Updated(old, changed)], listOk,
           /\ old # Updated(old, changed)
           /\ \/ endpointsReferenced(old, listOk)
              \/ endpointsReferenced(Updated(old, changed), listOk))

deleteEndpointsNotification ==
  \E ep \in EndpointsObjects, listOk \in BOOLEAN :
    Handle("endpoints", ep, listOk, endpointsReferenced(ep, listOk))

addSecretNotification ==
  \E s \in SecretObjects, listOk \in BOOLEAN :
    Handle("secret", s, listOk, secretReferenced(s.Namespace, s.Name, listOk))

updateSecretNotification ==
  \E old \in SecretObjects, changed \in BOOLEAN, listOk \in BOOLEAN :
    Handle("secret update", [old |-> old, cur |-> Updated(old, changed)], listOk,
           /\ old # Updated(old, changed)
           /\ \/ secretReferenced(old.Namespace, old.Name, listOk)
              \/ secretReferenced(Updated(old, changed).Namespace,
                                  Updated(old, changed).Name, listOk))

deleteSecretNotification ==
  \E s \in SecretObjects, listOk \in BOOLEAN :
    Handle("secret", s, listOk, secretReferenced(s.Namespace, s.Name, listOk))

addPodNotification ==
  \E pod \in PodObjects, listOk \in BOOLEAN :
    Handle("pod", pod, listOk, podReferenced(pod, listOk))

\* old and cur are the same Pod before and after an update, which may
\* have changed its labels
updatePodNotification ==
  \E old \in PodObjects, cur \in PodObjects, listOk \in BOOLEAN :
    /\ old.Namespace = cur.Namespace
    /\ Handle("pod update", [old |-> old, cur |-> cur], listOk,
              old # cur /\ (podReferenced(old, listOk) \/ podReferenced(cur, listOk)))

deletePodNotification ==
  \E pod \in PodObjects, listOk \in BOOLEAN :
    Handle("pod", pod, listOk, podReferenced(pod, listOk))

\* the rule after an update: the same (a resync), or with another class
IngressUpdates(old) == {old} \cup {[old EXCEPT !.Class = c] : c \in {"nghttpx", "other"}}

\* an update handler of rules that drops an update whose objects are equal
updateIngressNotificationDeepEqual ==
  \E old \in NotifyPool : \E cur \in IngressUpdates(old) :
    Handle("ingress update", [old |-> old, cur |-> cur], TRUE,
           old # cur /\ (validateIngressClass(old) \/ validateIngressClass(cur)))

\* no reflect.DeepEqual test: the update is dropped only when neither the
\* old nor the current rule passes the class filter
updateIngressNotification ==
  \E old \in NotifyPool : \E cur \in IngressUpdates(old) :
    Handle("ingress update", [old |-> old, cur |-> cur], TRUE,
           validateIngressClass(old) \/ validateIngressClass(cur))

\* lbc.ngxConfigMap: "n/g"
ngxConfigMap == <<110, 47, 103>>

\* ConfigMaps g and x of namespace "n"
ConfigMapObjects ==
  {[Namespace |-> <<110>>, Name |-> name, Version |-> 1] : name \in {<<103>>, <<120>>}}

updateConfigMapNotification ==
  \E old \in ConfigMapObjects, changed \in BOOLEAN :
    Handle("configmap update", [old |-> old, cur |-> Updated(old, changed)], TRUE,
           /\ old # Updated(old, changed)
           /\ Updated(old, changed).Namespace \o <<47>> \o Updated(old, changed).Name
                = ngxConfigMap)

NextNotify ==
  \/ updateIngressNotification
  \/ updateConfigMapNotification
  \/ addEndpointsNotification
  \/ updateEndpointsNotification
  \/ deleteEndpointsNotification
  \/ addSecretNotification
  \/ updateSecretNotification
  \/ deleteSecretNotification
  \/ addPodNotification
  \/ updatePodNotification
  \/ deletePodNotification

SpecNotify == InitNotify /\ [][NextNotify]_vars

\* the objects the handled notification carried
UpdateKinds ==
  {"ingress update", "configmap update", "endpoints update", "secret update", "pod update"}

Objects(e) == IF e.kind \in UpdateKinds
              THEN {e.obj.old, e.obj.cur} ELSE {e.obj}

\* an update notification whose objects are deeply equal is dropped
Differs(e) == e.kind \in UpdateKinds => e.obj.old # e.obj.cur

\* the handler called enqueue: one more enqueue than before, the key is dirty
Enqueued == enqSinceGet = event.before + 1 /\ syncKey \in syncQueue.dirty

\* the paths of all rules of ing
AllPaths(ing) == UNION { SeqRange(ing.Rules[i].Paths) : i \in 1..Len(ing.Rules) }

\* ep is the Endpoints object of the default service or of the target
\* service of a path of an in-scope rule
EndpointsRelevant(ep) ==
  \/ ep.Namespace \o <<47>> \o ep.Name = config.defaultSvc
  \/ \E ing \in mirror.ings :
       /\ InScope(ing)
       /\ \E path \in AllPaths(ing) :
            ing.Namespace = ep.Namespace /\ path.ServiceName = ep.Name

\* C24: endpointsReferenced(ep) is true iff ep is the Endpoints object of the
\* configured default service or of the target service of a path of an
\* in-scope rule, and the Endpoints handlers enqueue iff it is true (the rule
\* listing having worked).
C24_EndpointsReferenced ==
  (event.kind \in {"endpoints", "endpoints update"} /\ event.listOk) =>
    /\ \A ep \in Objects(event) : endpointsReferenced(ep, TRUE) <=> EndpointsRelevant(ep)
    /\ Enqueued <=> (Differs(event) /\ \E ep \in Objects(event) : EndpointsRelevant(ep))

\* Endpoints n/s, which is not the default service's, came while a rule of
\* the configured class and a rule of another class target service s: the
\* handler enqueued
C24_Witness ==
  /\ event.kind = "endpoints"
  /\ event.listOk
  /\ event.obj.Namespace = <<110>> /\ event.obj.Name = <<115>>
  /\ {ing.Class : ing \in mirror.ings} = {"nghttpx", "other", ""}
  /\ Enqueued

\* the services whose selector the labels of pod match
Selecting(pod) == {svc \in mirror.svcs : svc.Selector \subseteq pod.Labels}

\* the labels of pod match the selector of the default service or of the
\* target service of a path of an in-scope rule
PodRelevantByLabels(pod) ==
  \/ \E svc \in Selecting(pod) : Key(svc) = config.defaultSvc
  \/ \E ing \in mirror.ings :
       /\ InScope(ing)
       /\ \E path \in AllPaths(ing) : \E svc \in Selecting(pod) :
            svc.Namespace = ing.Namespace /\ svc.Name = path.ServiceName

\* C25 (as stated): podReferenced(pod) is true iff the labels of pod match
\* the selector of the default service or of a service that is the target of
\* a path of an in-scope rule, and the Pod handlers enqueue iff it is true.
C25_PodReferencedByLabels ==
  (event.kind \in {"pod", "pod update"} /\ event.listOk) =>
    /\ \A pod \in Objects(event) : podReferenced(pod, TRUE) <=> PodRelevantByLabels(pod)
    /\ Enqueued <=> (Differs(event) /\ \E pod \in Objects(event) : PodRelevantByLabels(pod))

\* the same with the rule and its target service in the namespace of pod
PodRelevant(pod) ==
  \/ \E svc \in Selecting(pod) : Key(svc) = config.defaultSvc
  \/ \E ing \in mirror.ings :
       /\ InScope(ing)
       /\ ing.Namespace = pod.Namespace
       /\ \E path \in AllPaths(ing) : \E svc \in Selecting(pod) :
            svc.Namespace = ing.Namespace /\ svc.Name = path.ServiceName

\* C25 (amended): podReferenced(pod) is true iff the labels of pod match the
\* selector of the default service, or of a service of the namespace of pod
\* that is the target of a path of an in-scope rule of that namespace; the
\* Pod handlers enqueue iff it is true.
C25_PodReferenced ==
  (event.kind \in {"pod", "pod update"} /\ event.listOk) =>
    /\ \A pod \in Objects(event) : podReferenced(pod, TRUE) <=> PodRelevant(pod)
    /\ Enqueued <=> (Differs(event) /\ \E pod \in Objects(event) : PodRelevant(pod))

\* a Pod of namespace "m" with the label of service n/s came while an
\* in-scope rule of namespace "n" targets that service: nothing was enqueued
C25_Witness ==
  /\ event.kind = "pod"
  /\ event.listOk
  /\ event.obj = [Namespace |-> <<109>>, Labels |-> {<<115>>}]
  /\ \E ing \in mirror.ings : InScope(ing) /\ ing.Namespace = <<110>>
                               /\ \E path \in AllPaths(ing) : path.ServiceName = <<115>>
  /\ \E svc \in mirror.svcs : svc.Name = <<115>>
  /\ enqSinceGet = event.before

\* the Secret is the default TLS secret or is named by the TLS section of
\* an in-scope rule of its namespace
SecretRelevant(secret) ==
  \/ secret.Namespace \o <<47>> \o secret.Name = config.defaultTLSSecret
  \/ \E ing \in mirror.ings :
       /\ InScope(ing)
       /\ ing.Namespace = secret.Namespace
       /\ secret.Name \in SeqRange(ing.TLS)

\* C26: secretReferenced(namespace, name) is true iff namespace/name is the
\* configured default TLS secret or an in-scope rule of that namespace names
\* the secret in its TLS section; the Secret handlers enqueue iff it is
\* true, so a secret named by out-of-class rules only is never enqueued for.
C26_SecretReferenced ==
  (event.kind \in {"secret", "secret update"} /\ event.listOk) =>
    /\ \A secret \in Objects(event) :
         secretReferenced(secret.Namespace, secret.Name, TRUE) <=> SecretRelevant(secret)
    /\ Enqueued <=> (Differs(event) /\ \E secret \in Objects(event) : SecretRelevant(secret))

\* Secret n/e came while only a rule of another class names it in namespace
\* "n" (and a rule of namespace "m" names an "e" of its own): nothing was
\* enqueued
C26_Witness ==
  /\ event.kind = "secret"
  /\ event.listOk
  /\ event.obj.Namespace = <<110>> /\ event.obj.Name = <<101>>
  /\ \E ing \in mirror.ings : ing.Class = "other" /\ <<101>> \in SeqRange(ing.TLS)
  /\ ~SecretRelevant(event.obj)
  /\ enqSinceGet = event.before

\* the object is relevant without a look at the rules: the Endpoints of the
\* default service, the default TLS secret, a Pod the default service selects
StaticDefault(kind, obj) ==
  IF kind \in {"endpoints", "endpoints update"}
  THEN obj.Namespace \o <<47>> \o obj.Name = config.defaultSvc
  ELSE IF kind \in {"secret", "secret update"}
  THEN obj.Namespace \o <<47>> \o obj.Name = config.defaultTLSSecret
  ELSE \E svc \in Selecting(obj) : Key(svc) = config.defaultSvc

\* the relevance test of the handler, with the listing failing
ReferencedOnError(kind, obj) ==
  IF kind \in {"endpoints", "endpoints update"} THEN endpointsReferenced(obj, FALSE)
  ELSE IF kind \in {"secret", "secret update"}
  THEN secretReferenced(obj.Namespace, obj.Name, FALSE)
  ELSE podReferenced(obj, FALSE)

\* the listing failed in the handler and none of its objects is a static default
FailedListing(e) ==
  /\ e.kind # "none"
  /\ ~e.listOk
  /\ \A obj \in Objects(e) : ~StaticDefault(e.kind, obj)

\* C27: when the rule listing fails inside endpointsReferenced, podReferenced
\* or secretReferenced and the changed object is not the static default,
\* the predicate returns "not relevant" and the handler enqueues nothing
\* and changes no state.
C27_ListErrorNotRelevant ==
  [][ FailedListing(event') =>
        /\ \A obj \in Objects(event') : ~ReferencedOnError(event'.kind, obj)
        /\ UNCHANGED <<ctlVars, resVars, statVars, tickVars, addrVars, mapVars>> ]_vars

\* the listing failed for Endpoints n/s, which an in-scope rule targets,
\* after an enqueue: nothing more was enqueued
C27_Witness ==
  /\ event.kind = "endpoints"
  /\ ~event.listOk
  /\ event.obj.Namespace = <<110>> /\ event.obj.Name = <<115>>
  /\ EndpointsRelevant(event.obj)
  /\ ~StaticDefault(event.kind, event.obj)
  /\ event.before = 1
  /\ enqSinceGet = 1

-----------------------------------------------------------------------------
(* Failed passes and enqueues during a pass (Spec) *)

\* the errors that make sync return before the handoff to the sink
PreHandoffErrors == {"listErr", "resolveErr", "cmErr"}

\* C28: a pass that fails before the handoff (rule list error, resolver
\* error, tuning-config lookup error) calls neither ReadConfig nor
\* CheckAndReload: the sink is called only by a pass that has had no error,
\* and while the last pass is one that failed before the handoff the sink
\* is not called, so what it accepted last stays in effect.
C28_FailedPassKeepsSink ==
  [][ /\ reloadCalls' # reloadCalls => (wpc = "reload" /\ syncResult = "none")
      /\ syncResult' \in PreHandoffErrors => reloadCalls' = reloadCalls ]_vars

\* the first pass handed its model to the sink, the second failed at the
\* lookup of the tuning config and has returned
C28_Witness ==
  /\ passes = 2
  /\ reloadCalls = 1
  /\ syncResult = "cmErr"
  /\ wpc = "done"

\* The steps of the queue worker goroutine
WorkerStep ==
  \/ WorkerStart
  \/ WorkerGetItem
  \/ SyncAccept
  \/ SyncList
  \/ SyncResolve
  \/ SyncGetConfigMap
  \/ SyncReload
  \/ SyncReturn
  \/ WorkerDone

\* The controller with a worker goroutine that is scheduled whenever it can
\* take a step and a limiter that refills as time passes
SpecLive == Init /\ [][Next]_vars /\ WF_vars(WorkerStep) /\ WF_vars(LimiterRefill)

\* C30: an enqueue accepted while the worker holds the item (from Get to
\* Done) is not lost and not multiplied.  While the item is held the key is
\* only marked dirty; Done queues it exactly once, however many enqueues
\* arrived; the next Get takes all of them as one pass and leaves nothing
\* pending; every pass lists the rules after its Get, hence after those
\* enqueues; and, unless the process exits, that further pass does run.
C30_EnqueueDuringPass ==
  /\ [](  /\ (syncQueue.processing # {} /\ enqSinceGet >= 1) =>
               (syncQueue.dirty = {syncKey} /\ syncQueue.queue = <<>>)
          /\ wpc \in {"accept", "list"} => listCalls = passes - 1
          /\ wpc \in {"resolve", "getcm", "reload", "return", "done"} => listCalls = passes )
  /\ [][ /\ (syncQueue.processing # {} /\ syncQueue'.processing = {}) =>
              syncQueue'.queue = IF enqSinceGet >= 1 THEN <<syncKey>> ELSE <<>>
         /\ passes' = passes + 1 =>
              /\ batch' = enqSinceGet
              /\ syncQueue'.queue = <<>> /\ syncQueue'.dirty = {} ]_vars
  /\ \A n \in 1..(MaxPasses - 1) :
       (passes = n /\ syncQueue.processing # {} /\ enqSinceGet >= 1)
         ~> (passes = n + 1 \/ rpc = "exited")

\* the second pass took the MaxEnq enqueues that the first pass left it
\* and nothing is pending
C30_Witness ==
  /\ passes = 2
  /\ batch = MaxEnq
  /\ wpc = "list"
  /\ enqSinceGet = 0
  /\ syncQueue.queue = <<>>
  /\ syncQueue.dirty = {}
  /\ listCalls = 1


------------------------------------------------------------------------------
(* Configuration mappers of a rule's annotations (SpecMapper) *)

\* A configuration (nghttpx.BackendConfig, nghttpx.PathConfig) is a function
\* from the fields that are set to their values: a field outside its DOMAIN
\* is a nil pointer.  An annotation is its unmarshalled value, or not set
\* (the empty string).

\* a configuration with no field set
EmptyConfig == [f \in {} |-> ""]

\* a mapping with no key
EmptyMapping == [k \in {} |-> EmptyConfig]

\* a nil *nghttpx.BackendConfig or *nghttpx.PathConfig
NilConfig == [Nil |-> "nil"]

\* the fields of nghttpx.BackendConfig that the annotations set here
BackendFields == {"Proto", "TLS", "SNI"}

\* the fields of nghttpx.PathConfig that the annotations set here
PathFields == {"ReadTimeout", "Mruby"}

BackendValues(f) ==
  CASE f = "Proto" -> {"h2", "http/1.1"}
    [] f = "TLS"   -> {"true"}
    [] f = "SNI"   -> {"example.com"}

PathValues(f) ==
  CASE f = "ReadTimeout" -> {"120s", "60s"}
    [] f = "Mruby"       -> {"rb"}

\* every configuration over the fields, each field being set or not
ConfigsOf(fields, Values(_)) ==
  UNION { {c \in [S -> UNION {Values(f) : f \in S}] : \A f \in S : c[f] \in Values(f)}
          : S \in SUBSET fields }

BackendConfigs == ConfigsOf(BackendFields, BackendValues)

PathConfigs == ConfigsOf(PathFields, PathValues)

\* service "svc", ports "80" and "81": the keys of the backend-config annotation
BackendKeys == {<<"svc", "80">>, <<"svc", "81">>}

\* "example.com"
ExampleCom == <<101, 120, 97, 109, 112, 108, 101, 46, 99, 111, 109>>

\* "/alpha"
Alpha == <<47, 97, 108, 112, 104, 97>>

\* "example.com/alpha" and "example.com": the keys of the path-config annotation
PathKeys == {ExampleCom \o Alpha, ExampleCom}

MappingsOf(keys, configs) == UNION {[K -> configs] : K \in SUBSET keys}

\* an annotation that is not set, or set to one of the values
AnnotationsOf(values, empty) ==
  {[set |-> FALSE, value |-> empty]} \cup {[set |-> TRUE, value |-> v] : v \in values}

NoDefault == [set |-> FALSE, value |-> EmptyConfig]

NoMapping == [set |-> FALSE, value |-> EmptyMapping]

\* a rule that carries the backend annotations only
BackendCases ==
  {[defaultBackendConfig |-> d, backendConfig |-> m,
    defaultPathConfig |-> NoDefault, pathConfig |-> NoMapping]
     : d \in AnnotationsOf(BackendConfigs, EmptyConfig),
       m \in AnnotationsOf(MappingsOf(BackendKeys, BackendConfigs), EmptyMapping)}

\* a rule that carries the path annotations only
PathCases ==
  {[defaultBackendConfig |-> NoDefault, backendConfig |-> NoMapping,
    defaultPathConfig |-> d, pathConfig |-> m]
     : d \in AnnotationsOf(PathConfigs, EmptyConfig),
       m \in AnnotationsOf(MappingsOf(PathKeys, PathConfigs), EmptyMapping)}

\* a rule that carries all four: the per-port entry and the default both
\* set the protocol, and the path annotations are those of the case
\* "Both config and default config"
BothCase ==
  [defaultBackendConfig |->
     [set |-> TRUE, value |-> [Proto |-> "http/1.1", SNI |-> "example.com"]],
   backendConfig |->
     [set |-> TRUE, value |-> [k \in {<<"svc", "80">>} |-> [Proto |-> "h2"]]],
   defaultPathConfig |-> [set |-> TRUE, value |-> [Mruby |-> "rb"]],
   pathConfig |->
     [set |-> TRUE, value |-> [k \in {ExampleCom \o Alpha} |-> [ReadTimeout |-> "120s"]]]]

AnnotationCases == BackendCases \cup PathCases \cup {BothCase}

InitMapper ==
  /\ InitController
  /\ InitResolverIdle
  /\ InitStatusIdle
  /\ InitTickIdle
  /\ InitAddrIdle
  /\ InitEventIdle
  /\ annotations \in AnnotationCases
  /\ bcm = NoMapper
  /\ pcm = NoMapper

\* a merge in which the default wins over the entry
ApplyDefaultOverrides(entry, defaultConfig) ==
  [f \in DOMAIN entry \cup DOMAIN defaultConfig |->
     IF f \in DOMAIN defaultConfig THEN defaultConfig[f] ELSE entry[f]]

\* the merge of an entry with the default configuration: a field the entry
\* sets is kept, a field it leaves unset is taken from the default
ApplyDefault(entry, defaultConfig) ==
  [f \in DOMAIN entry \cup DOMAIN defaultConfig |->
     IF f \in DOMAIN entry THEN entry[f] ELSE defaultConfig[f]]

\* ingressAnnotation.NewBackendConfigMapper
NewBackendConfigMapper(ann) ==
  LET entries == ann.backendConfig.value
  IN  IF ~ann.defaultBackendConfig.set
      THEN [DefaultBackendConfig |-> NilConfig, BackendConfigMapping |-> entries]
      ELSE LET defaultConfig == ann.defaultBackendConfig.value
           IN  [DefaultBackendConfig |-> defaultConfig,
                BackendConfigMapping |->
                  [k \in DOMAIN entries |-> ApplyDefault(entries[k], defaultConfig)]]

\* the key of a path-config entry: a key without a path gets the path "/"
normalizePathKey(key) ==
  IF \E i \in DOMAIN key : key[i] = 47 THEN key ELSE key \o <<47>>

\* the entries under their normalised keys (the keys of PathKeys stay
\* distinct when normalised)
NormalizedMapping(raw) ==
  [k \in {normalizePathKey(r) : r \in DOMAIN raw} |->
     raw[CHOOSE r \in DOMAIN raw : normalizePathKey(r) = k]]

\* ingressAnnotation.NewPathConfigMapper
NewPathConfigMapper(ann) ==
  LET entries == NormalizedMapping(ann.pathConfig.value)
  IN  IF ~ann.defaultPathConfig.set
      THEN [DefaultPathConfig |-> NilConfig, PathConfigMapping |-> entries]
      ELSE LET defaultConfig == ann.defaultPathConfig.value
           IN  [DefaultPathConfig |-> defaultConfig,
                PathConfigMapping |->
                  [k \in DOMAIN entries |-> ApplyDefault(entries[k], defaultConfig)]]

\* the controller builds the backend-config mapper of the rule
BuildBackendConfigMapper ==
  /\ bcm = NoMapper
  /\ bcm' = NewBackendConfigMapper(annotations)
  /\ UNCHANGED <<annotations, pcm, ctlVars, resVars, statVars, tickVars, addrVars, event>>

\* the controller builds the path-config mapper of the rule
BuildPathConfigMapper ==
  /\ pcm = NoMapper
  /\ pcm' = NewPathConfigMapper(annotations)
  /\ UNCHANGED <<annotations, bcm, ctlVars, resVars, statVars, tickVars, addrVars, event>>

NextMapper == BuildBackendConfigMapper \/ BuildPathConfigMapper

SpecMapper == InitMapper /\ [][NextMapper]_vars

\* the entry of the mapper is the annotation's entry with the fields it
\* leaves unset taken from the default, when there is one
Merged(entry, out, defaultConfig, fields) ==
  \A f \in fields :
    IF f \in DOMAIN entry THEN f \in DOMAIN out /\ out[f] = entry[f]
    ELSE IF f \in DOMAIN defaultConfig THEN f \in DOMAIN out /\ out[f] = defaultConfig[f]
    ELSE f \notin DOMAIN out

DefaultOf(annotation) == IF annotation.set THEN annotation.value ELSE NilConfig

------------------------------------------------------------------------------
(* Nothing runs on unsynced mirrors (Spec) *)

\* a step of the status loop that runs getNodeIPAndUpdateIngress
TickRuns == spc = "tick" /\ spc' = "select"

\* a step that starts the queue worker and the status loop
Spawns == wpc # "spawned" /\ wpc' = "spawned"

\* C31 as stated: no pass starts, no model is handed to the sink and no
\* status tick runs before every mirror has reported HasSynced.
C31_NothingBeforeSync ==
  [][ /\ passes' # passes => synced
      /\ reloadCalls' # reloadCalls => synced
      /\ TickRuns => synced ]_vars

\* C31: no pass starts and no model is handed to the sink before every
\* mirror has reported HasSynced; the queue worker and the status loop are
\* started, and a status tick runs, only when the mirrors have synced or the
\* stop channel is closed.
C31_NothingBeforeSyncOrStop ==
  [][ /\ passes' # passes => synced
      /\ reloadCalls' # reloadCalls => synced
      /\ Spawns => (synced \/ stopCh = "closed")
      /\ TickRuns => (synced \/ stopCh = "closed") ]_vars

\* Stop came before the mirrors synced: the status loop has run its tick on
\* unsynced mirrors, the worker has left without a pass
C31_Witness ==
  /\ ~synced
  /\ stopCh = "closed"
  /\ spc = "select"
  /\ wpc = "exited"
  /\ passes = 0


------------------------------------------------------------------------------
(* Update notifications of a resync (SpecNotify) *)

\* C32: an update notification whose old and current objects are identical
\* enqueues a recompute iff it is a rule's and the rule passes the class
\* filter; for Endpoints, a Secret, the ConfigMap or a Pod it enqueues
\* nothing.
C32_ResyncReprocessesRules ==
  (event.kind \in UpdateKinds /\ event.obj.old = event.obj.cur) =>
    (Enqueued <=> (event.kind = "ingress update" /\ InScope(event.obj.cur)))

\* the resync of a rule of the configured class was enqueued
C32_Witness ==
  /\ event.kind = "ingress update"
  /\ event.obj.old = event.obj.cur
  /\ event.obj.cur.Class = "nghttpx"
  /\ Enqueued


------------------------------------------------------------------------------
(* The service port of a path (SpecScenario) *)

\* the declared ports of svc that match the backend port string bp: by
\* number, by target port or by name
Matches(svc, bp) ==
  {i \in 1..Len(svc.Ports) :
     \/ Itoa(svc.Ports[i].Port) = bp
     \/ PortString(svc.Ports[i].TargetPort) = bp
     \/ svc.Ports[i].Name = bp}

\* the endpoints behind the declared port i of svc
EndpointsOfPort(svc, i) == getEndpoints(listed.pods, svc, svc.Ports[i], "TCP", DefaultPortBackendConfig)

\* the Upstreams of the emitted model that come from path
UpstreamsOf(ing, path) ==
  {u \in SeqRange(ingConfig.Upstreams) : u.Name = UpstreamName(ing, ing.Rules[1], path, path.Path)}

\* the services the path names
ServicesOf(ing, path) ==
  {svc \in mirror.svcs : Key(svc) = ing.Namespace \o <<47>> \o path.ServiceName}

\* C33: a path's backends are the endpoints of the first declared port of
\* its service, in index order, whose number, target port or name equals the
\* backend port string; when that port has no endpoints the path gives no
\* Upstream, even if a later declared port matches too and has endpoints.
C33_FirstMatchingPortOnly ==
  Emitted =>
    \A ing \in mirror.ings : \A path \in SeqRange(ing.Rules[1].Paths) :
      LET bp == PortString(path.ServicePort)
      IN  IF \E svc \in ServicesOf(ing, path) : Matches(svc, bp) # {}
          THEN \A svc \in ServicesOf(ing, path) :
                 LET first == CHOOSE i \in Matches(svc, bp) : \A j \in Matches(svc, bp) : i <= j
                     eps   == EndpointsOfPort(svc, first)
                 IN  IF eps = <<>> THEN UpstreamsOf(ing, path) = {}
                     ELSE /\ UpstreamsOf(ing, path) # {}
                          /\ \A u \in UpstreamsOf(ing, path) :
                               u.Backends = UniqBackends(SortSlice(eps, "backend"))
          ELSE UpstreamsOf(ing, path) = {}

\* service "s" declares two ports that match "80": the first has no
\* endpoints, the second has, and the model holds no Upstream for path "/"
C33_Witness ==
  /\ Emitted
  /\ \E ing \in mirror.ings : \E svc \in ServicesOf(ing, ing.Rules[1].Paths[1]) :
       /\ Matches(svc, Itoa(80)) = {1, 2}
       /\ EndpointsOfPort(svc, 1) = <<>>
       /\ EndpointsOfPort(svc, 2) # <<>>
       /\ UpstreamsOf(ing, ing.Rules[1].Paths[1]) = {}


\* the target port of a declared service port was omitted: the zero IntOrString
Omitted(targetPort) == targetPort.Type = "Int" /\ targetPort.IntVal = 0

\* an endpoint of svc with an address listens on TCP port n
LiveOn(svc, n) ==
  \E ep \in mirror.eps :
    /\ Key(ep) = Key(svc)
    /\ \E ss \in SeqRange(ep.Subsets) :
         ss.Addresses # <<>> /\ \E epPort \in SeqRange(ss.Ports) :
                                   epPort.Port = n /\ epPort.Protocol = "TCP"

\* C34: when the target port of the matched service port is omitted, the
\* service port number is used as the target port, so the endpoints that
\* listen on that number are backends of the path's Upstream.
C34_OmittedTargetUsesPort ==
  Emitted =>
    \A ing \in mirror.ings : \A path \in SeqRange(ing.Rules[1].Paths) :
      \A svc \in ServicesOf(ing, path) :
        LET hits  == Matches(svc, PortString(path.ServicePort))
            first == CHOOSE i \in hits : \A j \in hits : i <= j
        IN  (/\ hits # {}
             /\ Omitted(svc.Ports[first].TargetPort)
             /\ LiveOn(svc, svc.Ports[first].Port))
            => \E u \in UpstreamsOf(ing, path) : \E b \in SeqRange(u.Backends) :
                 b.Port = Itoa(svc.Ports[first].Port)


------------------------------------------------------------------------------
(* TLS of the emitted model (SpecResolver) *)

\* the Secrets named by the TLS section of ing
TLSSecretsOf(ing) ==
  {sec \in mirror.secrets :
     \E i \in 1..Len(ing.TLS) : sec.Namespace = ing.Namespace /\ sec.Name = ing.TLS[i]}

\* every Secret the TLS section of ing names is in the mirror, with a
\* certificate and a key that validate
AllSecretsValid(ing) ==
  \A i \in 1..Len(ing.TLS) :
    \E sec \in mirror.secrets :
      /\ sec.Namespace = ing.Namespace /\ sec.Name = ing.TLS[i]
      /\ sec.Cert = "good" /\ sec.PrivKey = "good"

\* the credentials contributed by the in-scope rules
Contributed ==
  {[Key |-> [Path |-> KeyPath(sec)], Checksum |-> sec.Version] :
     sec \in UNION {TLSSecretsOf(ing) : ing \in {x \in mirror.ings : InScope(x) /\ AllSecretsValid(x)}}}

\* C35: in every emitted model TLS is enabled iff a default credential is
\* present; with no default TLS secret configured, TLS is enabled iff an
\* in-scope rule contributed a valid credential, the default credential is
\* then the first in key-path order and the sub-credential list holds
\* exactly the others, once each.
C35_TLSIffDefaultCred ==
  Emitted =>
    /\ ingConfig.TLS <=> ingConfig.DefaultTLSCred # NilCred
    /\ config.defaultTLSSecret = <<>> =>
         /\ ingConfig.TLS <=> Contributed # {}
         /\ Contributed # {} =>
              /\ ingConfig.DefaultTLSCred \in Contributed
              /\ \A c \in Contributed \ {ingConfig.DefaultTLSCred} :
                   StrLess(ingConfig.DefaultTLSCred.Key.Path, c.Key.Path)
              /\ SeqRange(ingConfig.SubTLSCred) = Contributed \ {ingConfig.DefaultTLSCred}
              /\ Len(ingConfig.SubTLSCred) = Cardinality(Contributed) - 1

\* no default TLS secret is configured, two in-scope rules name secret "c"
\* and one of them secret "e" as well: "c" is the default credential and "e"
\* the only sub-credential
C35_Witness ==
  /\ Emitted
  /\ config.defaultTLSSecret = <<>>
  /\ Cardinality({ing \in mirror.ings : InScope(ing) /\ AllSecretsValid(ing) /\ ing.TLS # <<>>}) = 2
  /\ ingConfig.TLS
  /\ ingConfig.DefaultTLSCred.Key.Path = <<110, 95, 99>>
  /\ Len(ingConfig.SubTLSCred) = 1
  /\ ingConfig.SubTLSCred[1].Key.Path = <<110, 95, 101>>

====
